---- MODULE Spec2Model ----
(***************************************************************************)
(* The cache-aside movie service of movieflix-app: the Movie collection,   *)
(* the OMDB provider, MovieService (searchMovies, getMovieById,            *)
(* saveMovieToCache, getCachedMovies, cleanExpiredCache) and the           *)
(* /api/movies routes with their filters, sort orders and pagination.      *)
(*                                                                         *)
(* Every await of the JavaScript code is a point where another request may *)
(* run, so each database round trip and each provider call is one action.  *)
(* Time is the value of Date.now() in milliseconds; the model's clock      *)
(* advances in steps of TickMs.                                            *)
(***************************************************************************)
EXTENDS Integers, Sequences, FiniteSets, TLC

(***************************************************************************)
(* Bounds of the model.                                                    *)
(***************************************************************************)
MaxTicks == 3
TicksPerTTL == 2

Reqs == {1, 2}

(***************************************************************************)
(* Program constants.                                                      *)
(***************************************************************************)
TTL == 24 * 60 * 60 * 1000
TickMs == TTL \div TicksPerTTL
YearMin == 1888
CacheLimit == 10

\* JavaScript null (and undefined) for a number-valued field, and NaN.
Null == 0 - 1
NaN == 0 - 2

(***************************************************************************)
(* Strings that the code inspects character by character are sequences of  *)
(* one-character strings.                                                  *)
(***************************************************************************)
StrNA == <<"N","/","A">>
MsgKeyNotConfigured ==
    <<"O","M","D","B"," ","A","P","I"," ","k","e","y"," ","n","o","t"," ","c","o","n","f","i","g","u","r","e","d">>
MsgTimeout ==
    <<"t","i","m","e","o","u","t"," ","o","f"," ","1","0","0","0","0","m","s"," ","e","x","c","e","e","d","e","d">>
MsgENOTFOUND ==
    <<"g","e","t","a","d","d","r","i","n","f","o"," ","E","N","O","T","F","O","U","N","D"," ","w","w","w",".","o","m","d","b","a","p","i",".","c","o","m">>
ErrMovieNotFound ==
    <<"M","o","v","i","e"," ","n","o","t"," ","f","o","u","n","d","!">>
ErrIncorrectId ==
    <<"I","n","c","o","r","r","e","c","t"," ","I","M","D","b"," ","I","D",".">>
ErrAbsent == <<>>
MsgDefaultNotFound ==
    <<"M","o","v","i","e"," ","n","o","t"," ","f","o","u","n","d">>
PrefixFetchDetails ==
    <<"F","a","i","l","e","d"," ","t","o"," ","f","e","t","c","h"," ","m","o","v","i","e"," ","d","e","t","a","i","l","s",":"," ">>
PrefixSearch ==
    <<"F","a","i","l","e","d"," ","t","o"," ","s","e","a","r","c","h"," ","m","o","v","i","e","s",":"," ">>
MsgSaveFailed ==
    <<"F","a","i","l","e","d"," ","t","o"," ","s","a","v","e"," ","m","o","v","i","e"," ","t","o"," ","d","a","t","a","b","a","s","e">>
NeedleNotFound ==
    <<"n","o","t"," ","f","o","u","n","d">>

\* String.prototype.includes
Includes(s, sub) ==
    \E i \in 1..(Len(s) - Len(sub) + 1) : SubSeq(s, i, i + Len(sub) - 1) = sub

IsDigit(c) == c \in {"0","1","2","3","4","5","6","7","8","9"}

DigitVal(c) ==
    CASE c = "0" -> 0 [] c = "1" -> 1 [] c = "2" -> 2 [] c = "3" -> 3
      [] c = "4" -> 4 [] c = "5" -> 5 [] c = "6" -> 6 [] c = "7" -> 7
      [] c = "8" -> 8 [] c = "9" -> 9

RECURSIVE ParseDigits(_, _)
ParseDigits(s, acc) ==
    IF s = <<>> \/ ~IsDigit(Head(s)) THEN acc
    ELSE ParseDigits(Tail(s), acc * 10 + DigitVal(Head(s)))

RECURSIVE DropDigits(_)
DropDigits(s) ==
    IF s = <<>> \/ ~IsDigit(Head(s)) THEN s ELSE DropDigits(Tail(s))

\* parseInt: the leading decimal digits, NaN when there are none.
parseInt(s) ==
    IF s = <<>> \/ ~IsDigit(Head(s)) THEN NaN ELSE ParseDigits(s, 0)

\* parseFloat of a rating "d.d"; scores are kept in tenths (8.2 is 82).
parseFloat(s) ==
    IF s = <<>> \/ ~IsDigit(Head(s)) THEN NaN
    ELSE LET rest == DropDigits(s)
         IN  IF Len(rest) >= 2 /\ rest[1] = "." /\ IsDigit(rest[2])
             THEN ParseDigits(s, 0) * 10 + DigitVal(rest[2])
             ELSE ParseDigits(s, 0) * 10

\* JavaScript `x || null` on a number: NaN and 0 are falsy.
OrNull(v) == IF v = NaN \/ v = 0 THEN Null ELSE v

Range(s) == {s[i] : i \in 1..Len(s)}

(***************************************************************************)
(* The external provider (OMDB).  Titles and plots are sequences of the    *)
(* lower-cased words a text search sees.  The provider's answers are the   *)
(* environment of the program: a detail request may answer with any of the *)
(* raw records OmdbDetails gives for the identifier.                       *)
(***************************************************************************)
\* Eleven further titles of the provider, all found by the term "saga".
SagaCatalog ==
    <<"tt0000101", "tt0000102", "tt0000103", "tt0000104", "tt0000105",
      "tt0000106", "tt0000107", "tt0000108", "tt0000109", "tt0000110",
      "tt0000111">>
SagaIndex(id) == CHOOSE k \in 1..Len(SagaCatalog) : SagaCatalog[k] = id

ImdbIds == {"tt0000001", "tt0000002", "tt0000003"} \cup Range(SagaCatalog)
UnknownId == "tt0000009"
Pages == {1}

\* What the callers ask for.  Request 1 is any caller; request 2 is a second
\* caller running at the same time, searching the title the first may ask for.
SearchTerms(q) == IF q = 1 THEN {"begins", "gotham"} ELSE {"begins"}
UseCacheOptions(q) == IF q = 1 THEN BOOLEAN ELSE {TRUE}
GetIds(q) == IF q = 1 THEN {"tt0000001", UnknownId} ELSE {}
PutIds(q) == IF q = 1 THEN {"tt0000001", UnknownId} ELSE {}
\* The term of the batch specification: three titles match it.
BatchTerms == {"batman"}

OmdbTitle(id) ==
    CASE id = "tt0000001" -> <<"batman", "begins">>
      [] id = "tt0000002" -> <<"batman", "returns">>
      [] id = "tt0000003" -> <<"batman", "forever">>
      [] id \in Range(SagaCatalog) -> <<"saga">>

OmdbPlot(id) ==
    CASE id = "tt0000001" -> <<"gotham">>
      [] id = "tt0000002" -> <<"gotham">>
      [] id = "tt0000003" -> <<"N/A">>
      [] id \in Range(SagaCatalog) -> <<"N/A">>

OmdbYears(id) ==
    CASE id = "tt0000001" -> {<<"2","0","0","5">>}
      [] id = "tt0000002" -> {<<"1","9","9","2">>, StrNA}
      [] id = "tt0000003" -> {<<"1","9","9","5">>}
      [] id \in Range(SagaCatalog) ->
           IF SagaIndex(id) % 2 = 1 THEN {<<"1","9","9","9">>}
           ELSE {<<"2","0","0","1">>}

OmdbRatings(id) ==
    CASE id = "tt0000001" -> {<<"8",".","2">>, <<"8",".","3">>}
      [] id = "tt0000002" -> {<<"7",".","1">>}
      [] id = "tt0000003" -> {StrNA}
      [] id \in Range(SagaCatalog) ->
           CASE SagaIndex(id) % 3 = 1 -> {<<"6",".","5">>}
             [] SagaIndex(id) % 3 = 2 -> {StrNA}
             [] OTHER -> {<<"7",".","1">>}

\* The Genre field, already cut at ', '; <<"N/A">> is the string 'N/A'.
OmdbGenre(id) ==
    CASE id = "tt0000001" -> <<"Action", "Crime">>
      [] id = "tt0000002" -> <<"Action", "Fantasy">>
      [] id = "tt0000003" -> <<"N/A">>
      [] id \in Range(SagaCatalog) -> <<"Drama">>

OmdbDetails(id) ==
    {[imdbID |-> id, Title |-> OmdbTitle(id), Plot |-> OmdbPlot(id),
      Genre |-> OmdbGenre(id),
      Year |-> y, imdbRating |-> r] : y \in OmdbYears(id), r \in OmdbRatings(id)}

\* The error strings the provider sends with Response 'False'.
OmdbErrors == {ErrMovieNotFound, ErrIncorrectId, ErrAbsent}
\* error.message of a failed or timed out axios call
TransportErrors == {MsgTimeout, MsgENOTFOUND}

\* The provider's catalogue in the order its search lists the titles.
OmdbCatalog == <<"tt0000001", "tt0000002", "tt0000003">> \o SagaCatalog

\* The provider answers a search ten titles to the page.
OmdbPageSize == 10

\* The provider's title search (s=term, type=movie): one page of matches.
OmdbSearch(term, page) ==
    LET found == SelectSeq(OmdbCatalog,
                           LAMBDA id : term \in Range(OmdbTitle(id)))
        last == IF Len(found) < page * OmdbPageSize THEN Len(found)
                ELSE page * OmdbPageSize
    IN  SubSeq(found, (page - 1) * OmdbPageSize + 1, last)

(***************************************************************************)
(* transformOMDBData: the provider's raw record to the Movie schema.       *)
(***************************************************************************)
transformOMDBData(omdbMovie) ==
    [imdbID |-> omdbMovie.imdbID,
     title  |-> omdbMovie.Title,
     year   |-> OrNull(parseInt(omdbMovie.Year)),
     genre  |-> IF omdbMovie.Genre # <<"N/A">> THEN omdbMovie.Genre ELSE <<>>,
     plot   |-> IF omdbMovie.Plot # <<"N/A">> THEN omdbMovie.Plot ELSE <<>>,
     score  |-> IF omdbMovie.imdbRating # StrNA
                THEN parseFloat(omdbMovie.imdbRating) ELSE Null,
     source |-> "omdb"]

(***************************************************************************)
(* The frontend's AuthContext.  A user is a record; null is NullUser, and   *)
(* a null token is NullToken.                                              *)
(***************************************************************************)
NullUser == [id |-> "null", name |-> "null"]
NullToken == "null"
NullError == "null"

\* initialState of the reducer
initialState ==
    [user |-> NullUser, token |-> NullToken, isAuthenticated |-> FALSE,
     isLoading |-> TRUE, error |-> NullError]

\* { ...user, ...payload }: spreading null adds nothing.
Spread(user, payload) ==
    IF user = NullUser THEN payload
    ELSE [f \in DOMAIN user \cup DOMAIN payload |->
            IF f \in DOMAIN payload THEN payload[f] ELSE user[f]]

authReducer(state, action) ==
    CASE action.type = "LOGIN_START" ->
           [state EXCEPT !.isLoading = TRUE, !.error = NullError]
      [] action.type = "LOGIN_SUCCESS" ->
           [state EXCEPT !.user = action.payload.user,
                         !.token = action.payload.token,
                         !.isAuthenticated = TRUE, !.isLoading = FALSE,
                         !.error = NullError]
      [] action.type = "LOGIN_FAILURE" ->
           [state EXCEPT !.user = NullUser, !.token = NullToken,
                         !.isAuthenticated = FALSE, !.isLoading = FALSE,
                         !.error = action.payload]
      [] action.type = "LOGOUT" ->
           [initialState EXCEPT !.isLoading = FALSE]
      [] action.type = "SET_LOADING" ->
           [state EXCEPT !.isLoading = action.payload]
      [] action.type = "CLEAR_ERROR" ->
           [state EXCEPT !.error = NullError]
      [] action.type = "UPDATE_USER" ->
           [state EXCEPT !.user = Spread(state.user, action.payload)]
      [] OTHER -> state

EmptyStorage ==
    [token |-> NullToken, user |-> NullUser, refreshToken |-> NullToken]

\* The state once the effect of the AuthProvider has run over localStorage.
initializeAuth(localStorage) ==
    LET restored ==
          IF localStorage.token # NullToken /\ localStorage.user # NullUser
          THEN authReducer(initialState,
                 [type |-> "LOGIN_SUCCESS",
                  payload |-> [token |-> localStorage.token,
                               user |-> localStorage.user]])
          ELSE initialState
    IN  authReducer(restored, [type |-> "SET_LOADING", payload |-> FALSE])

\* The page after it is loaded: no call of the page before is awaited.
\* loggedOut records the history: a logout has completed and no login or
\* register has succeeded since.
Mounted(localStorage) ==
    [state |-> initializeAuth(localStorage), localStorage |-> localStorage,
     calls |-> {}, loggedOut |-> FALSE]

\* The browser when the AuthProvider is mounted on an empty localStorage and
\* initializeAuth has run: SET_LOADING false, no call awaiting an answer.
InitialClient == Mounted(EmptyStorage)

NoData == [imdbID |-> ""]
NoSnap == [_id |-> <<"", 0>>]

(***************************************************************************)
(* State.                                                                  *)
(*   now         Date.now()                                                *)
(*   store       the documents of the Movie collection                     *)
(*   omdbApiKey  whether process.env.OMDB_API_KEY is set                   *)
(*   req         the requests in flight: their position and locals         *)
(*   client      the browser: the AuthContext state, localStorage and the   *)
(*               calls of the AuthProvider that await an answer             *)
(***************************************************************************)
VARIABLES now, store, omdbApiKey, req, client

vars == <<now, store, omdbApiKey, req, client>>

NoOut ==
    [status |-> "none", source |-> "undefined", movies |-> <<>>, total |-> 0,
     page |-> Null, limit |-> Null, pages |-> Null, deletedCount |-> Null,
     active |-> Null, expired |-> Null,
     msg |-> <<>>, http |-> 0, readAt |-> 0]

\* A filter of the query string that was not given (undefined).
NoFilter == [kind |-> "none", value |-> Null, min |-> Null, max |-> Null]

\* searchSchema's defaults: the options of a request without parameters.
DefaultLimit == 20
DefaultOptions ==
    [genre |-> <<>>, year |-> NoFilter, rating |-> NoFilter,
     sortBy |-> "createdAt", sortOrder |-> "desc", page |-> 1,
     limit |-> DefaultLimit]

\* A parameter of the query string that was not given.
Absent == "undefined"

\* req.query without a parameter.
NoQuery ==
    [search |-> Absent, genre |-> <<>>, year |-> NoFilter, rating |-> NoFilter,
     sort |-> Absent, order |-> Absent, page |-> Null, limit |-> Null]

\* The Authorization header of a request: none, a token that jwt.verify
\* rejects (malformed or expired), or a token signed for a user id.
NoCredential == [kind |-> "none", userId |-> ""]

IdleReq ==
    [op |-> "none", pc |-> "idle", arg |-> "", useCache |-> FALSE, page |-> 0,
     opts |-> DefaultOptions, got |-> {}, failed |-> FALSE,
     query |-> NoQuery, cred |-> NoCredential,
     criteria |-> [olderThan |-> Null, rating |-> NoFilter, genre |-> <<>>,
                   year |-> NoFilter],
     items |-> <<>>, total |-> 0, calls |-> 0, out |-> NoOut]

NewItem(id, st) ==
    [id |-> id, st |-> st, data |-> NoData, snap |-> NoSnap, exp |-> 0]

Init ==
    /\ now = 0
    /\ store = {}
    /\ omdbApiKey \in BOOLEAN
    /\ req = [q \in Reqs |-> IdleReq]
    /\ client = InitialClient

(***************************************************************************)
(* The Movie collection.                                                   *)
(***************************************************************************)
\* movieSchema validation of the normalized fields (year: required, min).
Validate(data) == data.year # Null /\ data.year >= YearMin

\* A fresh ObjectId: one no stored document and no loaded document has.  An
\* _id is written <<imdbID, n>>, n counting the documents made for the key.
FreshId(imdbID) ==
    LET used == {d._id : d \in store} \cup
                UNION {{req[q].items[i].snap._id : i \in 1..Len(req[q].items)} :
                       q \in DOMAIN req}
    IN  <<imdbID, CHOOSE n \in 1..(Cardinality(used) + 1) :
                    /\ <<imdbID, n>> \notin used
                    /\ \A m \in 1..(n - 1) : <<imdbID, m>> \in used>>

\* NewMovie with a cacheExpiry default that leaves out the 24 hours.
NewMovie_NoTTL(data) ==
    [_id |-> FreshId(data.imdbID), imdbID |-> data.imdbID, title |-> data.title,
     year |-> data.year, genre |-> data.genre, plot |-> data.plot,
     score |-> data.score, source |-> data.source,
     cacheExpiry |-> now, lastUpdated |-> now, createdAt |-> now]

\* new Movie(movieData): the schema defaults fill cacheExpiry and lastUpdated,
\* the timestamps option fills createdAt.
NewMovie(data) ==
    [_id |-> FreshId(data.imdbID), imdbID |-> data.imdbID, title |-> data.title,
     year |-> data.year, genre |-> data.genre, plot |-> data.plot,
     score |-> data.score, source |-> data.source,
     cacheExpiry |-> now + TTL, lastUpdated |-> now, createdAt |-> now]

\* DuplicateKey without the unique index.
DuplicateKey_NoIndex(doc) == FALSE

\* The unique index on imdbID rejects a second document with the same key.
DuplicateKey(doc) == \E d \in store : d.imdbID = doc.imdbID /\ d._id # doc._id

\* AssignMovie without the assignment to cacheExpiry.
AssignMovie_NoRefresh(snap, data) ==
    [snap EXCEPT !.imdbID = data.imdbID, !.title = data.title,
                 !.year = data.year, !.genre = data.genre,
                 !.plot = data.plot,
                 !.score = data.score, !.source = data.source,
                 !.lastUpdated = now]

\* Object.assign(existingMovie, movieData) and the two assignments after it,
\* on the document as it was loaded.
AssignMovie(snap, data) ==
    [snap EXCEPT !.imdbID = data.imdbID, !.title = data.title,
                 !.year = data.year, !.genre = data.genre,
                 !.plot = data.plot,
                 !.score = data.score, !.source = data.source,
                 !.cacheExpiry = now + TTL, !.lastUpdated = now]

\* SaveModified writing the two dates only.
SaveModified_DatesOnly(d, snap, doc) ==
    [d EXCEPT !.cacheExpiry = doc.cacheExpiry, !.lastUpdated = doc.lastUpdated]

\* document.save() of a loaded document writes the paths that were modified
\* since it was loaded; the two dates are new values on every save.
SaveModified(d, snap, doc) ==
    [d EXCEPT !.imdbID = IF doc.imdbID # snap.imdbID THEN doc.imdbID ELSE @,
              !.title  = IF doc.title # snap.title THEN doc.title ELSE @,
              !.year   = IF doc.year # snap.year THEN doc.year ELSE @,
              !.genre  = IF doc.genre # snap.genre THEN doc.genre ELSE @,
              !.plot   = IF doc.plot # snap.plot THEN doc.plot ELSE @,
              !.score  = IF doc.score # snap.score THEN doc.score ELSE @,
              !.source = IF doc.source # snap.source THEN doc.source ELSE @,
              !.cacheExpiry = doc.cacheExpiry,
              !.lastUpdated = doc.lastUpdated]

\* $text search on the text index over title and plot.
TextMatch(d, term) == term \in Range(d.title) \cup Range(d.plot)

\* Active without the comparison with the clock.
Active_NoFilter(d) == TRUE

\* cacheExpiry: { $gt: new Date() }
Active(d) == d.cacheExpiry > now

\* Expired with $lte in place of $lt.
Expired_Inclusive(d) == d.cacheExpiry <= now

\* Expired with the comparison turned round.
Expired_Future(d) == d.cacheExpiry > now

\* cacheExpiry: { $lt: new Date() }
Expired(d) == d.cacheExpiry < now

\* The order in which a query without a deciding sort key lists documents.
CatalogIndex(imdbID) ==
    CHOOSE k \in 1..Len(OmdbCatalog) : OmdbCatalog[k] = imdbID

DocBefore(x, y) ==
    \/ CatalogIndex(x.imdbID) < CatalogIndex(y.imdbID)
    \/ x.imdbID = y.imdbID /\ x._id[2] <= y._id[2]

RECURSIVE DocsToSeq(_)
DocsToSeq(S) ==
    IF S = {} THEN <<>>
    ELSE LET x == CHOOSE y \in S : \A z \in S : DocBefore(y, z)
         IN  <<x>> \o DocsToSeq(S \ {x})

Take(s, n) == SubSeq(s, 1, IF Len(s) < n THEN Len(s) ELSE n)

(***************************************************************************)
(* Responses.                                                              *)
(***************************************************************************)
Settled(it) == it.st \in {"ok", "fail"}

\* searchMovies after Promise.allSettled: the fulfilled, non-null details.
SuccessfulCaches(items) ==
    LET oks == SelectSeq(items, LAMBDA it : it.st = "ok")
    IN  [k \in 1..Len(oks) |-> oks[k].data]

\* The value searchMovies returns on the API path once every item settled.
SearchFinish(r) ==
    IF \A i \in 1..Len(r.items) : Settled(r.items[i])
    THEN [r EXCEPT !.pc = "done",
                   !.out = [NoOut EXCEPT !.status = "ok", !.source = "api",
                                         !.movies = SuccessfulCaches(r.items),
                                         !.total = r.total, !.page = r.page,
                                         !.readAt = now]]
    ELSE r

\* router.get('/:id') and router.put('/:id'): the catch block's status.
ErrorStatus(op, msg) ==
    IF op = "getById" /\ Includes(msg, NeedleNotFound) THEN 404 ELSE 500

\* A thrown error reaches the route of a getById or an admin update.
Throw(r, msg) ==
    [r EXCEPT !.pc = "done",
              !.out = [NoOut EXCEPT !.status = "error", !.msg = msg,
                                    !.http = ErrorStatus(r.op, msg),
                                    !.readAt = now]]

\* ItemFailed without the try/catch around each item of a search.
ItemFailed_Rethrow(r, i, msg) ==
    Throw([r EXCEPT !.items[i] = NewItem(@.id, "fail")], msg)

\* One item of a request failed: searchMovies drops it, the others rethrow.
ItemFailed(r, i, msg) ==
    IF r.op = "search"
    THEN SearchFinish([r EXCEPT !.items[i] = NewItem(@.id, "fail")])
    ELSE Throw([r EXCEPT !.items[i] = NewItem(@.id, "fail")], msg)

(***************************************************************************)
(* Requests arrive.                                                        *)
(***************************************************************************)
\* movieService.searchMovies(searchTerm, { page, useCache })
StartSearchPage(q, terms, pages) ==
    /\ req[q].pc = "idle"
    /\ \E term \in terms, page \in pages, useCache \in UseCacheOptions(q) :
         req' = [req EXCEPT ![q] =
                   [IdleReq EXCEPT !.op = "search", !.arg = term,
                                   !.page = page, !.useCache = useCache,
                                   !.pc = IF useCache THEN "cache" ELSE "api"]]
    /\ UNCHANGED <<now, store, omdbApiKey, client>>

\* A search for the first page of results.
StartSearch(q, terms) == StartSearchPage(q, terms, Pages)

\* GET /api/movies/:id
StartGetById(q, ids) ==
    /\ req[q].pc = "idle"
    /\ \E id \in ids :
         req' = [req EXCEPT ![q] =
                   [IdleReq EXCEPT !.op = "getById", !.arg = id, !.pc = "cache"]]
    /\ UNCHANGED <<now, store, omdbApiKey, client>>

\* PUT /api/movies/:id
StartPut(q) ==
    /\ req[q].pc = "idle"
    /\ \E id \in PutIds(q) :
         req' = [req EXCEPT ![q] =
                   [IdleReq EXCEPT !.op = "put", !.arg = id, !.pc = "find"]]
    /\ UNCHANGED <<now, store, omdbApiKey, client>>

(***************************************************************************)
(* searchMovies.                                                           *)
(***************************************************************************)
\* CachedMatches of a search that never looks into the store.
CachedMatches_Skip(term) == <<>>

\* Movie.find({$text, cacheExpiry: {$gt: now}}).limit(10).sort(textScore)
CachedMatches(term) ==
    Take(DocsToSeq({d \in store : TextMatch(d, term) /\ Active(d)}), CacheLimit)

\* SearchCache with a lookup that skips the pages before the one asked for.
SearchCache_Paged(q) ==
    /\ req[q].op = "search" /\ req[q].pc = "cache"
    /\ LET all == DocsToSeq({d \in store :
                               TextMatch(d, req[q].arg) /\ Active(d)})
           skip == (req[q].page - 1) * CacheLimit
           cachedMovies == IF Len(all) <= skip THEN <<>>
                           ELSE Take(SubSeq(all, skip + 1, Len(all)),
                                     CacheLimit)
       IN  req' = [req EXCEPT ![q] =
                 IF Len(cachedMovies) > 0
                 THEN [@ EXCEPT !.pc = "done",
                         !.out = [NoOut EXCEPT !.status = "ok",
                                    !.source = "cache",
                                    !.movies = cachedMovies,
                                    !.total = Len(cachedMovies),
                                    !.page = req[q].page,
                                    !.readAt = now]]
                 ELSE [@ EXCEPT !.pc = "api"]]
    /\ UNCHANGED <<now, store, omdbApiKey, client>>

\* The cache lookup of searchMovies and the return on a hit.
SearchCache(q) ==
    /\ req[q].op = "search" /\ req[q].pc = "cache"
    /\ LET cachedMovies == CachedMatches(req[q].arg)
       IN  req' = [req EXCEPT ![q] =
                 IF Len(cachedMovies) > 0
                 THEN [@ EXCEPT !.pc = "done",
                         !.out = [NoOut EXCEPT !.status = "ok",
                                    !.source = "cache",
                                    !.movies = cachedMovies,
                                    !.total = Len(cachedMovies),
                                    !.page = req[q].page,
                                    !.readAt = now]]
                 ELSE [@ EXCEPT !.pc = "api"]]
    /\ UNCHANGED <<now, store, omdbApiKey, client>>

\* SearchFailed answering with an empty result instead of the error.
SearchFailed_Empty(r, message) ==
    [r EXCEPT !.pc = "done",
              !.out = [NoOut EXCEPT !.status = "ok", !.source = "api",
                                    !.page = r.page, !.readAt = now]]

\* searchMoviesOMDB's catch block wraps the error and throws it, and the
\* catch block of searchMovies throws it on.
SearchFailed(r, message) ==
    [r EXCEPT !.pc = "done",
              !.out = [NoOut EXCEPT !.status = "error",
                                    !.msg = PrefixSearch \o message,
                                    !.http = 500, !.readAt = now]]

\* searchMoviesOMDB and what searchMovies does with its answer.
SearchApi(q) ==
    /\ req[q].op = "search" /\ req[q].pc = "api"
    /\ \/ /\ ~omdbApiKey
          /\ req' = [req EXCEPT ![q] = SearchFailed(@, MsgKeyNotConfigured)]
       \/ /\ omdbApiKey
          /\ \E e \in TransportErrors :
               req' = [req EXCEPT ![q] =
                         SearchFailed([@ EXCEPT !.calls = @ + 1], e)]
       \/ /\ omdbApiKey
          /\ LET found == OmdbSearch(req[q].arg, req[q].page)
             IN  req' = [req EXCEPT ![q] =
                   IF Len(found) = 0
                   THEN [@ EXCEPT !.pc = "done", !.calls = @ + 1,
                           !.out = [NoOut EXCEPT !.status = "ok",
                                      !.readAt = now]]
                   ELSE [@ EXCEPT !.pc = "items", !.calls = @ + 1,
                           !.total = Len(found),
                           !.items = [k \in 1..Len(found) |->
                                        NewItem(found[k], "fetch")]]]
    /\ UNCHANGED <<now, store, omdbApiKey, client>>

(***************************************************************************)
(* getMovieById and the admin update: the first database lookup.           *)
(***************************************************************************)
\* Movie.findOne({imdbID, cacheExpiry: {$gt: now}}) and the return on a hit.
GetByIdCache(q) ==
    /\ req[q].op = "getById" /\ req[q].pc = "cache"
    /\ LET hits == {d \in store : d.imdbID = req[q].arg /\ Active(d)}
       IN  IF hits # {}
           THEN \E movie \in hits :
                  req' = [req EXCEPT ![q] =
                    [@ EXCEPT !.pc = "done",
                       !.out = [NoOut EXCEPT !.status = "ok",
                                  !.source = "cache", !.movies = <<movie>>,
                                  !.http = 200, !.readAt = now]]]
           ELSE req' = [req EXCEPT ![q] =
                    [@ EXCEPT !.pc = "items",
                              !.items = <<NewItem(req[q].arg, "fetch")>>]]
    /\ UNCHANGED <<now, store, omdbApiKey, client>>

\* router.put('/:id'): Movie.findOne({imdbID: id}) and the 404 when absent.
PutFind(q) ==
    /\ req[q].op = "put" /\ req[q].pc = "find"
    /\ LET hits == {d \in store : d.imdbID = req[q].arg}
       IN  IF hits # {}
           THEN \E movie \in hits :
                  req' = [req EXCEPT ![q] =
                    [@ EXCEPT !.pc = "items",
                       !.items = <<[NewItem(req[q].arg, "fetch")
                                      EXCEPT !.snap = movie]>>]]
           ELSE req' = [req EXCEPT ![q] =
                    [@ EXCEPT !.pc = "done",
                       !.out = [NoOut EXCEPT !.status = "error",
                                  !.http = 404, !.readAt = now]]]
    /\ UNCHANGED <<now, store, omdbApiKey, client>>

(***************************************************************************)
(* One item: getMovieDetailsOMDB, then saveMovieToCache (findOne, save).   *)
(* An item is one identifier of a search answer, or the identifier of a    *)
(* getMovieById or of an admin update.                                     *)
(***************************************************************************)
AfterFetch(op) == IF op = "put" THEN "save" ELSE "find"

\* getMovieDetailsOMDB(imdbId)
ItemFetch(q, i) ==
    /\ req[q].pc = "items" /\ i \in 1..Len(req[q].items)
    /\ req[q].items[i].st = "fetch"
    /\ LET r == req[q]
           id == r.items[i].id
           called == [r EXCEPT !.calls = @ + 1]
       IN  \/ /\ ~omdbApiKey
              /\ req' = [req EXCEPT ![q] =
                   ItemFailed(r, i, PrefixFetchDetails \o MsgKeyNotConfigured)]
           \/ /\ omdbApiKey
              /\ \E e \in TransportErrors :
                   req' = [req EXCEPT ![q] =
                     ItemFailed(called, i, PrefixFetchDetails \o e)]
           \/ /\ omdbApiKey /\ id \notin ImdbIds
              /\ \E e \in OmdbErrors :
                   req' = [req EXCEPT ![q] =
                     ItemFailed(called, i, PrefixFetchDetails \o
                        (IF e = ErrAbsent THEN MsgDefaultNotFound ELSE e))]
           \/ /\ omdbApiKey /\ id \in ImdbIds
              /\ \E raw \in OmdbDetails(id) :
                   req' = [req EXCEPT ![q] =
                     [called EXCEPT !.items[i].data = transformOMDBData(raw),
                                    !.items[i].st = AfterFetch(r.op)]]
    /\ UNCHANGED <<now, store, omdbApiKey, client>>

\* saveMovieToCache: Movie.findOne({ imdbID: movieData.imdbID })
ItemFind(q, i) ==
    /\ req[q].pc = "items" /\ i \in 1..Len(req[q].items)
    /\ req[q].items[i].st = "find"
    /\ LET hits == {d \in store : d.imdbID = req[q].items[i].data.imdbID}
       IN  IF hits # {}
           THEN \E existingMovie \in hits :
                  req' = [req EXCEPT ![q].items[i].snap = existingMovie,
                                     ![q].items[i].st = "save"]
           ELSE req' = [req EXCEPT ![q].items[i].st = "save"]
    /\ UNCHANGED <<now, store, omdbApiKey, client>>

\* SaveDoc that always builds a new document.
SaveDoc_AlwaysNew(it) == NewMovie(it.data)

\* The document the save of item i writes: a new one, or the loaded one
\* after Object.assign and the refresh of its dates.
SaveDoc(it) ==
    IF it.snap = NoSnap THEN NewMovie(it.data) ELSE AssignMovie(it.snap, it.data)

\* Whether the database accepts the save of item it.
SaveAccepted(it) ==
    /\ Validate(SaveDoc(it))
    /\ ~DuplicateKey(SaveDoc(it))
    /\ it.snap # NoSnap => \E d \in store : d._id = it.snap._id

\* The collection after the accepted save of item it.
StoreAfterSave(it) ==
    IF it.snap = NoSnap
    THEN store \cup {SaveDoc(it)}
    ELSE {IF d._id = it.snap._id THEN SaveModified(d, it.snap, SaveDoc(it))
          ELSE d : d \in store}

\* What the caller of the save gets once the save succeeded.
ItemSaved(r, i, doc) ==
    LET r1 == [r EXCEPT !.items[i].st = "ok",
                        !.items[i].exp = doc.cacheExpiry]
    IN  CASE r.op = "search" -> SearchFinish(r1)
          [] r.op = "getById" ->
               [r1 EXCEPT !.pc = "done",
                  !.out = [NoOut EXCEPT !.status = "ok", !.source = "api",
                             !.movies = <<doc>>, !.http = 200,
                             !.readAt = now]]
          [] r.op = "put" ->
               [r1 EXCEPT !.pc = "done",
                  !.out = [NoOut EXCEPT !.status = "ok",
                             !.movies = <<doc>>, !.http = 200,
                             !.readAt = now]]

\* saveMovieToCache: existingMovie.save() or new Movie(movieData).save();
\* router.put('/:id'): movie.save()
ItemSave(q, i) ==
    /\ req[q].pc = "items" /\ i \in 1..Len(req[q].items)
    /\ req[q].items[i].st = "save"
    /\ LET it == req[q].items[i]
       IN  IF SaveAccepted(it)
           THEN /\ store' = StoreAfterSave(it)
                /\ req' = [req EXCEPT ![q] = ItemSaved(req[q], i, SaveDoc(it))]
           ELSE /\ store' = store
                /\ req' = [req EXCEPT ![q] = ItemFailed(req[q], i, MsgSaveFailed)]
    /\ UNCHANGED <<now, omdbApiKey, client>>

(***************************************************************************)
(* The query parameters of GET /api/movies after searchSchema.validate.    *)
(* A filter is absent (NoFilter), a single value, or a range whose min and *)
(* max may each be absent (Null).  Ratings are in tenths, as scores are.   *)
(***************************************************************************)
ValueFilter(v) == [NoFilter EXCEPT !.kind = "value", !.value = v]
RangeFilter(lo, hi) == [NoFilter EXCEPT !.kind = "range", !.min = lo, !.max = hi]

\* JavaScript truthiness of a number-valued expression: undefined, null, NaN
\* and 0 are falsy.
Truthy(v) == v # Null /\ v # NaN /\ v # 0

\* `if (year)`, `if (rating)`: an object is truthy, a number unless it is 0.
FilterGiven(f) == f.kind = "range" \/ (f.kind = "value" /\ Truthy(f.value))

\* MongoDB's $gte and $lte on a number field: null matches neither.
MongoGte(field, v) == field # Null /\ field >= v
MongoLte(field, v) == field # Null /\ field <= v

\* JavaScript's < and > with a number: null converts to 0.
JsNum(v) == IF v = Null THEN 0 ELSE v

\* Math.ceil(a / b) for a >= 0, b >= 1
Ceil(a, b) == (a + b - 1) \div b

(***************************************************************************)
(* getCachedMovies: the query it builds from the options.                  *)
(***************************************************************************)
\* query.genre = { $in: [...] }
GenreQuery(d, genre) ==
    Len(genre) > 0 => Range(d.genre) \cap Range(genre) # {}

\* query.year
YearQuery(d, year) ==
    CASE year.kind = "range" ->
           /\ Truthy(year.min) => MongoGte(d.year, year.min)
           /\ Truthy(year.max) => MongoLte(d.year, year.max)
      [] year.kind = "value" /\ FilterGiven(year) -> d.year = year.value
      [] OTHER -> TRUE

\* query['rating.imdb.score']
RatingQuery(d, rating) ==
    CASE rating.kind = "range" ->
           /\ Truthy(rating.min) => MongoGte(d.score, rating.min)
           /\ Truthy(rating.max) => MongoLte(d.score, rating.max)
      [] rating.kind = "value" /\ FilterGiven(rating) ->
           MongoGte(d.score, rating.value)
      [] OTHER -> TRUE

\* QueryMatches without the cacheExpiry condition.
QueryMatches_NoExpiry(opts) ==
    {d \in store : /\ GenreQuery(d, opts.genre)
                   /\ YearQuery(d, opts.year)
                   /\ RatingQuery(d, opts.rating)}

\* The documents the query of getCachedMovies matches.
QueryMatches(opts) ==
    {d \in store : /\ Active(d)
                   /\ GenreQuery(d, opts.genre)
                   /\ YearQuery(d, opts.year)
                   /\ RatingQuery(d, opts.rating)}

\* The value a document is sorted by.  A null score sorts below every
\* number in MongoDB, as Null does here.  The sort keys title and runtime
\* are not among the sort orders of this model.
SortField(d, sortBy) ==
    CASE sortBy = "year" -> d.year
      [] sortBy = "rating" -> d.score
      [] OTHER -> d.createdAt

\* The sort key lets x stand before y.
SortedBefore(x, y, sortBy, sortOrder) ==
    LET kx == SortField(x, sortBy)
        ky == SortField(y, sortBy)
    IN  IF sortOrder = "desc" THEN kx >= ky ELSE kx <= ky

\* .sort(sort): the sort has the one key, so the database may list the
\* documents that tie on it in any order.  The orders it may answer with.
RECURSIVE QuerySort(_, _, _)
QuerySort(S, sortBy, sortOrder) ==
    IF S = {} THEN {<<>>}
    ELSE UNION {{<<x>> \o t : t \in QuerySort(S \ {x}, sortBy, sortOrder)} :
                x \in {y \in S :
                         \A z \in S : SortedBefore(y, z, sortBy, sortOrder)}}

\* SkipLimit that never skips.
SkipLimit_NoSkip(s, skip, limit) ==
    SubSeq(s, 1, IF Len(s) < limit THEN Len(s) ELSE limit)

\* .skip(skip).limit(limit)
SkipLimit(s, skip, limit) ==
    SubSeq(s, skip + 1, IF Len(s) < skip + limit THEN Len(s) ELSE skip + limit)

\* Movie.find(query).sort(sort).skip(skip).limit(limit): the pages the
\* database may answer with.
FindPage(opts) ==
    {SkipLimit(s, (opts.page - 1) * opts.limit, opts.limit) :
       s \in QuerySort(QueryMatches(opts), opts.sortBy, opts.sortOrder)}

\* getCachedMovies returns once both queries of its Promise.all answered;
\* the route sends movies, pagination and the source 'cache'.
ListFinish(r) ==
    IF r.got = {"find", "count"} THEN [r EXCEPT !.pc = "done"] ELSE r

\* GET /api/movies without a search term: getCachedMovies(options)
ListStart(q, options) ==
    /\ req[q].pc = "idle"
    /\ \E opts \in options :
         req' = [req EXCEPT ![q] =
                   [IdleReq EXCEPT !.op = "list", !.pc = "list",
                      !.opts = opts, !.page = opts.page,
                      !.out = [NoOut EXCEPT !.status = "ok",
                                 !.source = "cache", !.http = 200,
                                 !.page = opts.page, !.limit = opts.limit]]]
    /\ UNCHANGED <<now, store, omdbApiKey, client>>

\* The first query of the Promise.all: the page of documents.
ListFind(q) ==
    /\ req[q].op = "list" /\ req[q].pc = "list" /\ "find" \notin req[q].got
    /\ \E movies \in FindPage(req[q].opts) :
         req' = [req EXCEPT ![q] =
                   ListFinish([@ EXCEPT !.got = @ \cup {"find"},
                                        !.out.movies = movies,
                                        !.out.readAt = now])]
    /\ UNCHANGED <<now, store, omdbApiKey, client>>

\* The second query of the Promise.all: Movie.countDocuments(query)
ListCount(q) ==
    /\ req[q].op = "list" /\ req[q].pc = "list" /\ "count" \notin req[q].got
    /\ LET total == Cardinality(QueryMatches(req[q].opts))
       IN  req' = [req EXCEPT ![q] =
                 ListFinish([@ EXCEPT !.got = @ \cup {"count"},
                                      !.out.total = total,
                                      !.out.pages = Ceil(total, req[q].opts.limit)])]
    /\ UNCHANGED <<now, store, omdbApiKey, client>>

(***************************************************************************)
(* GET /api/movies with a search term: the route filters and sorts in      *)
(* memory what searchMovies returned, and answers with it.                 *)
(***************************************************************************)
\* movie.genre.some(g => genres.includes(g)), under `if (genre)`
GenreFilter(m, genre) ==
    Len(genre) > 0 => Range(m.genre) \cap Range(genre) # {}

\* The year test of the filter callback.
YearFilter(m, year) ==
    CASE year.kind = "range" ->
           /\ ~(Truthy(year.min) /\ JsNum(m.year) < year.min)
           /\ ~(Truthy(year.max) /\ JsNum(m.year) > year.max)
      [] year.kind = "value" /\ FilterGiven(year) -> m.year = year.value
      [] OTHER -> TRUE

\* The rating test of the filter callback: `if (rating && score)`.
RatingFilter(m, rating) ==
    IF FilterGiven(rating) /\ Truthy(m.score)
    THEN CASE rating.kind = "range" ->
                /\ ~(Truthy(rating.min) /\ m.score < rating.min)
                /\ ~(Truthy(rating.max) /\ m.score > rating.max)
           [] OTHER -> ~(m.score < rating.value)
    ELSE TRUE

\* result.movies.filter(...), applied when a filter was given.
MemoryFilter(movies, opts) ==
    IF Len(opts.genre) > 0 \/ FilterGiven(opts.year) \/ FilterGiven(opts.rating)
    THEN SelectSeq(movies, LAMBDA m : /\ GenreFilter(m, opts.genre)
                                      /\ YearFilter(m, opts.year)
                                      /\ RatingFilter(m, opts.rating))
    ELSE movies

\* aVal, bVal of the comparator: `x || 0`; a record that came from the
\* provider has no createdAt.
SortValue(m, sortBy) ==
    CASE sortBy = "year" -> IF Truthy(m.year) THEN m.year ELSE 0
      [] sortBy = "rating" -> IF Truthy(m.score) THEN m.score ELSE 0
      [] OTHER -> IF "createdAt" \in DOMAIN m THEN m.createdAt ELSE 0

\* The comparator puts a before b.
ComesBefore(a, b, sortBy, sortOrder) ==
    IF sortOrder = "desc"
    THEN SortValue(a, sortBy) > SortValue(b, sortBy)
    ELSE SortValue(a, sortBy) < SortValue(b, sortBy)

\* One step of the stable sort: x goes before the first element it precedes.
RECURSIVE InsertSorted(_, _, _, _)
InsertSorted(x, s, sortBy, sortOrder) ==
    IF s = <<>> THEN <<x>>
    ELSE IF ComesBefore(x, Head(s), sortBy, sortOrder) THEN <<x>> \o s
    ELSE <<Head(s)>> \o InsertSorted(x, Tail(s), sortBy, sortOrder)

\* result.movies.sort(comparator): Array.prototype.sort is stable.
RECURSIVE MemorySort(_, _, _)
MemorySort(movies, sortBy, sortOrder) ==
    IF movies = <<>> THEN <<>>
    ELSE InsertSorted(movies[Len(movies)],
                      MemorySort(SubSeq(movies, 1, Len(movies) - 1),
                                 sortBy, sortOrder),
                      sortBy, sortOrder)

\* res.json({ success, data, pagination, source }) for a search result, and
\* the 500 of the catch block.
RouteResponse(result, opts) ==
    IF result.status = "ok"
    THEN [NoOut EXCEPT
            !.status = "ok",
            !.movies = MemorySort(MemoryFilter(result.movies, opts),
                                  opts.sortBy, opts.sortOrder),
            !.page = opts.page, !.limit = opts.limit,
            !.total = result.total,
            !.pages = Ceil(result.total, opts.limit),
            !.source = IF result.source = "undefined" THEN "cache"
                       ELSE result.source,
            !.http = 200, !.readAt = result.readAt]
    ELSE [NoOut EXCEPT !.status = "error", !.msg = result.msg, !.http = 500,
                       !.readAt = result.readAt]

\* The route goes on once searchMovies(search, { page }) has returned.  The
\* other query parameters are read only here.
RouteSend(q, options) ==
    /\ req[q].op = "search" /\ req[q].pc = "done"
    /\ \E opts \in {o \in options : o.page = req[q].page} :
         req' = [req EXCEPT ![q] =
                   [@ EXCEPT !.pc = "sent", !.opts = opts,
                             !.out = RouteResponse(req[q].out, opts)]]
    /\ UNCHANGED <<now, store, omdbApiKey, client>>

\* The response to the search has been sent.
RouteRespond(q) ==
    /\ req[q].pc = "sent"
    /\ req' = [req EXCEPT ![q] = IdleReq]
    /\ UNCHANGED <<now, store, omdbApiKey, client>>

(***************************************************************************)
(* The validation of the routes.  The numbers of a query string are the    *)
(* numbers Joi converts them to; a rating is in tenths.                    *)
(***************************************************************************)
\* new Date().getFullYear() while the model's clock runs
ThisYear == 2025
SchemaYearMin == 1888
SchemaYearMax == ThisYear + 5
SchemaRatingMax == 100
SchemaLimitMax == 50
SortKeys == {"title", "year", "rating", "runtime", "createdAt"}
SortOrders == {"asc", "desc"}

\* Joi.number().min(lo).max(hi) on a bound of a range: a key of the object
\* that is not given passes.
BoundError(v, lo, hi) ==
    v # Null /\ ((lo # Null /\ v < lo) \/ (hi # Null /\ v > hi))

\* searchSchema.validate(req.query) reports an error.
SchemaError(query) ==
    \/ query.search = ""
    \/ /\ query.year.kind = "value"
       /\ (query.year.value < SchemaYearMin \/ query.year.value > SchemaYearMax)
    \/ /\ query.year.kind = "range"
       /\ \/ BoundError(query.year.min, SchemaYearMin, Null)
          \/ BoundError(query.year.max, Null, SchemaYearMax)
    \/ /\ query.rating.kind = "value"
       /\ (query.rating.value < 0 \/ query.rating.value > SchemaRatingMax)
    \/ /\ query.rating.kind = "range"
       /\ \/ BoundError(query.rating.min, 0, SchemaRatingMax)
          \/ BoundError(query.rating.max, 0, SchemaRatingMax)
    \/ query.sort \notin SortKeys \cup {Absent}
    \/ query.order \notin SortOrders \cup {Absent}
    \/ query.page # Null /\ query.page < 1
    \/ query.limit # Null /\ (query.limit < 1 \/ query.limit > SchemaLimitMax)

\* The value of the validation: the parameters with the schema's defaults.
SchemaValue(query) ==
    [genre |-> query.genre, year |-> query.year, rating |-> query.rating,
     sortBy |-> IF query.sort = Absent THEN "createdAt" ELSE query.sort,
     sortOrder |-> IF query.order = Absent THEN "desc" ELSE query.order,
     page |-> IF query.page = Null THEN 1 ELSE query.page,
     limit |-> IF query.limit = Null THEN DefaultLimit ELSE query.limit]

\* GET /api/movies: the validation, the 400 on an error and otherwise the
\* call of searchMovies(search, { page }) or of getCachedMovies(options).
GetMovies(q, queries) ==
    /\ req[q].pc = "idle"
    /\ \E query \in queries :
         LET value == SchemaValue(query)
         IN  req' = [req EXCEPT ![q] =
               IF SchemaError(query)
               THEN [IdleReq EXCEPT !.op = "get", !.pc = "done",
                       !.query = query,
                       !.out = [NoOut EXCEPT !.status = "error", !.http = 400]]
               ELSE IF query.search # Absent
               THEN [IdleReq EXCEPT !.op = "search", !.arg = query.search,
                       !.page = value.page, !.useCache = TRUE, !.pc = "cache",
                       !.query = query, !.opts = value]
               ELSE [IdleReq EXCEPT !.op = "list", !.pc = "list",
                       !.query = query, !.opts = value, !.page = value.page,
                       !.out = [NoOut EXCEPT !.status = "ok",
                                  !.source = "cache", !.http = 200,
                                  !.page = value.page, !.limit = value.limit]]]
    /\ UNCHANGED <<now, store, omdbApiKey, client>>

\* The characters of the path parameters of the model.
IdChars(id) ==
    CASE id = "tt0000001" -> <<"t","t","0","0","0","0","0","0","1">>
      [] id = "tt0000009" -> <<"t","t","0","0","0","0","0","0","9">>
      [] id = "tt00000001" -> <<"t","t","0","0","0","0","0","0","0","1">>
      [] id = "tt000000001" -> <<"t","t","0","0","0","0","0","0","0","0","1">>
      [] id = "tt000001" -> <<"t","t","0","0","0","0","0","1">>
      [] id = "tt000000x" -> <<"t","t","0","0","0","0","0","0","x">>
      [] id = "nm0000001" -> <<"n","m","0","0","0","0","0","0","1">>
      [] id = "batman" -> <<"b","a","t","m","a","n">>

\* id.match(/^tt\d{7,8}$/)
MatchesImdbId(chars) ==
    /\ Len(chars) \in {9, 10}
    /\ chars[1] = "t" /\ chars[2] = "t"
    /\ \A i \in 3..Len(chars) : IsDigit(chars[i])

\* GET /api/movies/:id: the test of the identifier, the 400 when it fails
\* and otherwise the call of getMovieById(id).
GetMovie(q, ids) ==
    /\ req[q].pc = "idle"
    /\ \E id \in ids :
         req' = [req EXCEPT ![q] =
               IF MatchesImdbId(IdChars(id))
               THEN [IdleReq EXCEPT !.op = "getById", !.arg = id, !.pc = "cache"]
               ELSE [IdleReq EXCEPT !.op = "getById", !.arg = id, !.pc = "done",
                       !.out = [NoOut EXCEPT !.status = "error", !.http = 400]]]
    /\ UNCHANGED <<now, store, omdbApiKey, client>>

(***************************************************************************)
(* The administrative routes: authenticateToken, requireAdmin and the      *)
(* handler.  The users are those of the User collection; "u4" has a token  *)
(* and no document any more.                                               *)
(***************************************************************************)
Users ==
    {[id |-> "u1", role |-> "admin", isActive |-> TRUE],
     [id |-> "u2", role |-> "admin", isActive |-> FALSE],
     [id |-> "u3", role |-> "user", isActive |-> TRUE]}

Credentials ==
    {NoCredential, [kind |-> "malformed", userId |-> ""],
     [kind |-> "expired", userId |-> "u1"]}
    \cup {[kind |-> "valid", userId |-> u] : u \in {"u1", "u2", "u3", "u4"}}

AdminOps == {"delete", "put", "purge", "deleteAll"}

\* RequireAdmin that lets every authenticated user pass.
RequireAdmin_AnyUser(user) == TRUE

\* requireAdmin: req.user.role === 'admin'
RequireAdmin(user) == user.role = "admin"

\* A response of a middleware.
Denied(r, http) ==
    [r EXCEPT !.pc = "done",
              !.out = [NoOut EXCEPT !.status = "error", !.http = http,
                                    !.readAt = now]]

\* A request to an administrative route arrives: authenticateToken answers
\* 401 without a token and when jwt.verify throws, and otherwise looks the
\* user up.
AdminRequest(q, ops, ids, creds) ==
    /\ req[q].pc = "idle"
    /\ \E op \in ops, id \in ids, cred \in creds :
         LET r == [IdleReq EXCEPT !.op = op, !.cred = cred, !.pc = "auth",
                                  !.arg = IF op \in {"delete", "put"} THEN id
                                          ELSE ""]
         IN  req' = [req EXCEPT ![q] =
                       IF cred.kind = "valid" THEN r ELSE Denied(r, 401)]
    /\ UNCHANGED <<now, store, omdbApiKey, client>>

\* User.findById(decoded.userId) answers: 401 for no or an inactive user;
\* then requireAdmin: 403 for another role; then the handler starts.
Authenticate(q) ==
    /\ req[q].op \in AdminOps /\ req[q].pc = "auth"
    /\ LET found == {u \in Users : u.id = req[q].cred.userId}
       IN  req' = [req EXCEPT ![q] =
             IF found = {} \/ \E u \in found : ~u.isActive
             THEN Denied(@, 401)
             ELSE IF \E u \in found : ~RequireAdmin(u)
             THEN Denied(@, 403)
             ELSE [@ EXCEPT !.pc = IF req[q].op = "put" THEN "find"
                                   ELSE "admitted"]]
    /\ UNCHANGED <<now, store, omdbApiKey, client>>

\* router.delete('/:id'): Movie.findOneAndDelete({ imdbID: id }), 404 when
\* there is no such record.
AdminDelete(q) ==
    /\ req[q].op = "delete" /\ req[q].pc = "admitted"
    /\ LET hits == {d \in store : d.imdbID = req[q].arg}
       IN  IF hits = {}
           THEN /\ store' = store
                /\ req' = [req EXCEPT ![q] = Denied(@, 404)]
           ELSE \E d \in hits :
                  /\ store' = store \ {d}
                  /\ req' = [req EXCEPT ![q] =
                        [@ EXCEPT !.pc = "done",
                           !.out = [NoOut EXCEPT !.status = "ok", !.http = 200,
                                      !.movies = <<d>>, !.readAt = now]]]
    /\ UNCHANGED <<now, omdbApiKey, client>>

\* router.delete('/cache/expired') and router.delete('/cache/all'): the
\* deleteMany and its deletedCount.
AdminDeleteMany(q) ==
    /\ req[q].op \in {"purge", "deleteAll"} /\ req[q].pc = "admitted"
    /\ LET matched == IF req[q].op = "purge" THEN {d \in store : Expired(d)}
                      ELSE store
       IN  /\ store' = store \ matched
           /\ req' = [req EXCEPT ![q] =
                 [@ EXCEPT !.pc = "done",
                    !.out = [NoOut EXCEPT !.status = "ok", !.http = 200,
                               !.deletedCount = Cardinality(matched),
                               !.readAt = now]]]
    /\ UNCHANGED <<now, omdbApiKey, client>>

(***************************************************************************)
(* Deletions.                                                              *)
(***************************************************************************)
\* router.delete('/:id'): Movie.findOneAndDelete({ imdbID: id })
DeleteMovie ==
    /\ \E id \in ImdbIds :
         \E d \in {x \in store : x.imdbID = id} : store' = store \ {d}
    /\ UNCHANGED <<now, omdbApiKey, req, client>>

\* cleanExpiredCache: Movie.deleteMany({ cacheExpiry: { $lt: new Date() } })
CleanExpiredCache ==
    /\ store' = {d \in store : ~Expired(d)}
    /\ UNCHANGED <<now, omdbApiKey, req, client>>

\* router.delete('/cache/expired'): cleanExpiredCache() and its deletedCount
PurgeExpired(q) ==
    /\ req[q].pc = "idle"
    /\ store' = {d \in store : ~Expired(d)}
    /\ req' = [req EXCEPT ![q] =
                 [IdleReq EXCEPT !.op = "purge", !.pc = "done",
                    !.out = [NoOut EXCEPT !.status = "ok", !.http = 200,
                               !.deletedCount =
                                  Cardinality({d \in store : Expired(d)}),
                               !.readAt = now]]]
    /\ UNCHANGED <<now, omdbApiKey, client>>

(***************************************************************************)
(* getCacheStats: the queries of its Promise.all answer one by one.  The   *)
(* two aggregations (top genres, records by year) read the store as the    *)
(* counts do; their answers are not part of the state.  out.readAt is the  *)
(* `new Date()` of the query, taken when getCacheStats is called.          *)
(***************************************************************************)
\* movieService.getCacheStats() is called.
StatsStart(q) ==
    /\ req[q].pc = "idle"
    /\ req' = [req EXCEPT ![q] =
                 [IdleReq EXCEPT !.op = "stats", !.pc = "stats",
                                 !.out.readAt = now]]
    /\ UNCHANGED <<now, store, omdbApiKey, client>>

\* return { total, active: total - expired, expired, ... }
StatsFinish(r) ==
    IF r.got = {"total", "expired"}
    THEN [r EXCEPT !.pc = "done",
                   !.out.status = IF @ = "none" THEN "ok" ELSE @,
                   !.out.active = r.out.total - r.out.expired]
    ELSE r

\* Movie.countDocuments()
StatsTotal(q) ==
    /\ req[q].pc = "stats" /\ "total" \notin req[q].got
    /\ req' = [req EXCEPT ![q] =
                 StatsFinish([@ EXCEPT !.got = @ \cup {"total"},
                                       !.out.total = Cardinality(store)])]
    /\ UNCHANGED <<now, store, omdbApiKey, client>>

\* Movie.countDocuments({ cacheExpiry: { $lt: new Date() } })
StatsExpired(q) ==
    /\ req[q].pc = "stats" /\ "expired" \notin req[q].got
    /\ req' = [req EXCEPT ![q] =
                 StatsFinish([@ EXCEPT !.got = @ \cup {"expired"},
                                       !.out.expired =
                                          Cardinality({d \in store :
                                             d.cacheExpiry < req[q].out.readAt})])]
    /\ UNCHANGED <<now, store, omdbApiKey, client>>

(***************************************************************************)
(* The scheduled cleanup (setupCacheCleanup): the daily job purges and     *)
(* then logs the statistics, the development job only purges.  A query may *)
(* fail with a store error.  A job's slot keeps, between its runs, whether *)
(* a run of the job has logged an error.                                   *)
(***************************************************************************)
CronJobs == {"daily", "development"}

\* CleanupFailed without the try/catch of the callback: the rejection
\* leaves the callback.
CleanupFailed_Uncaught(r) ==
    [r EXCEPT !.pc = "crashed", !.out.status = "unhandled"]

\* catch (error) { console.error('Cache cleanup failed:', error) }
CleanupFailed(r) ==
    [r EXCEPT !.pc = "done", !.out.status = "logged"]

\* cron.schedule(...): the callback starts and calls cleanExpiredCache(),
\* which sends its deleteMany.
CronTrigger(q, job) ==
    /\ req[q].pc = "idle"
    /\ req' = [req EXCEPT ![q] =
                 [IdleReq EXCEPT !.op = job, !.pc = "purge",
                                 !.failed = req[q].failed]]
    /\ UNCHANGED <<now, store, omdbApiKey, client>>

\* After the purge the daily job calls getCacheStats(), the development job
\* is done.
AfterPurge(r) ==
    IF r.op = "daily" THEN [r EXCEPT !.pc = "stats", !.out.readAt = now]
    ELSE [r EXCEPT !.pc = "done"]

\* The deleteMany of cleanExpiredCache answers: with the number of deleted
\* documents, or with an error, which cleanExpiredCache logs and turns
\* into the return value 0.
CronPurge(q) ==
    /\ req[q].op \in CronJobs /\ req[q].pc = "purge"
    /\ \/ /\ store' = {d \in store : ~Expired(d)}
          /\ req' = [req EXCEPT ![q] =
                       AfterPurge([@ EXCEPT !.out.deletedCount =
                                      Cardinality({d \in store : Expired(d)})])]
       \/ /\ store' = store
          /\ req' = [req EXCEPT ![q] =
                       AfterPurge([@ EXCEPT !.out.deletedCount = 0,
                                            !.out.status = "logged"])]
    /\ UNCHANGED <<now, omdbApiKey, client>>

\* A query of getCacheStats fails: getCacheStats logs the error and throws
\* it; the callback of the daily job catches it, a caller gets it.
StatsFails(q) ==
    /\ req[q].pc = "stats"
    /\ req' = [req EXCEPT ![q] =
                 IF @.op = "daily" THEN CleanupFailed(@)
                 ELSE [@ EXCEPT !.pc = "done", !.out.status = "error",
                                !.out.http = 500]]
    /\ UNCHANGED <<now, store, omdbApiKey, client>>

\* The callback returns; the job waits for its next trigger.
CronReturn(q) ==
    /\ req[q].op \in CronJobs /\ req[q].pc = "done"
    /\ req' = [req EXCEPT ![q] =
                 [IdleReq EXCEPT !.failed =
                    req[q].failed \/ req[q].out.status = "logged"]]
    /\ UNCHANGED <<now, store, omdbApiKey, client>>

(***************************************************************************)
(* cleanupByCriteria(criteria): the query it builds and its deleteMany.    *)
(* A criterion that was not given is Null (olderThan), NoFilter (rating,   *)
(* year) or the empty list (genre).                                        *)
(***************************************************************************)
\* criteria = {}
NoCriteria ==
    [olderThan |-> Null, rating |-> NoFilter, genre |-> <<>>, year |-> NoFilter]

\* MongoDB's $lt and $gt on a number field: null matches neither.
MongoLt(field, v) == field # Null /\ field < v
MongoGt(field, v) == field # Null /\ field > v

\* if (range) { if (range.min) query[f] = { $lt: range.min };
\*              if (range.max) query[f] = { ...query[f], $gt: range.max } }
\* The operators of one field's condition all have to hold.
ExclusionQuery(field, range) ==
    range.kind = "range" =>
      /\ Truthy(range.min) => MongoLt(field, range.min)
      /\ Truthy(range.max) => MongoGt(field, range.max)

\* The documents the query matches; the empty query matches every one.
CriteriaMatches(d, criteria) ==
    /\ criteria.olderThan # Null => d.createdAt < criteria.olderThan
    /\ ExclusionQuery(d.score, criteria.rating)
    /\ Len(criteria.genre) > 0 => Range(d.genre) \cap Range(criteria.genre) = {}
    /\ ExclusionQuery(d.year, criteria.year)

\* const result = await Movie.deleteMany(query); return result.deletedCount
CleanupByCriteria(q, criterias) ==
    /\ req[q].pc = "idle"
    /\ \E criteria \in criterias :
         LET matched == {d \in store : CriteriaMatches(d, criteria)}
         IN  /\ store' = store \ matched
             /\ req' = [req EXCEPT ![q] =
                          [IdleReq EXCEPT !.op = "cleanup", !.pc = "done",
                             !.criteria = criteria,
                             !.out = [NoOut EXCEPT !.status = "ok",
                                        !.deletedCount = Cardinality(matched),
                                        !.readAt = now]]]
    /\ UNCHANGED <<now, omdbApiKey, client>>

\* router.delete('/cache/all'): Movie.deleteMany({})
DeleteAll ==
    /\ store # {}
    /\ store' = {}
    /\ UNCHANGED <<now, omdbApiKey, req, client>>

\* The TTL index on cacheExpiry: the database removes an expired document.
TTLMonitor ==
    /\ \E d \in {x \in store : Expired(x)} : store' = store \ {d}
    /\ UNCHANGED <<now, omdbApiKey, req, client>>

(***************************************************************************)
(* The clock, and the end of a request.                                    *)
(***************************************************************************)
Tick ==
    /\ now < MaxTicks * TickMs
    /\ now' = now + TickMs
    /\ UNCHANGED <<store, omdbApiKey, req, client>>

\* res.json(...): the response is sent and the request is over.
Respond(q) ==
    /\ req[q].pc = "done"
    /\ req' = [req EXCEPT ![q] = IdleReq]
    /\ UNCHANGED <<now, store, omdbApiKey, client>>

Next ==
    \/ \E q \in Reqs : StartSearch(q, SearchTerms(q))
    \/ \E q \in Reqs : StartGetById(q, GetIds(q))
    \/ \E q \in Reqs : StartPut(q)
    \/ \E q \in Reqs : SearchCache(q)
    \/ \E q \in Reqs : SearchApi(q)
    \/ \E q \in Reqs : GetByIdCache(q)
    \/ \E q \in Reqs : PutFind(q)
    \/ \E q \in Reqs : \E i \in 1..3 : ItemFetch(q, i)
    \/ \E q \in Reqs : \E i \in 1..3 : ItemFind(q, i)
    \/ \E q \in Reqs : \E i \in 1..3 : ItemSave(q, i)
    \/ ListStart(1, {DefaultOptions})
    \/ ListFind(1)
    \/ ListCount(1)
    \/ DeleteMovie
    \/ CleanExpiredCache
    \/ DeleteAll
    \/ TTLMonitor
    \/ Tick
    \/ \E q \in Reqs : Respond(q)

Spec == Init /\ [][Next]_vars

(***************************************************************************)
(* The batch specification: one caller of the search route whose term      *)
(* matches three titles, so that searchMovies fans out over three items    *)
(* while documents are deleted and expire under it.                        *)
(***************************************************************************)
InitBatch ==
    /\ now = 0
    /\ store = {}
    /\ omdbApiKey = TRUE
    /\ req = [q \in {1} |-> IdleReq]
    /\ client = InitialClient

NextBatch ==
    \/ StartSearch(1, BatchTerms) /\ req'[1].useCache
    \/ SearchCache(1)
    \/ SearchApi(1)
    \/ \E i \in 1..3 : ItemFetch(1, i)
    \/ \E i \in 1..3 : ItemFind(1, i)
    \/ \E i \in 1..3 : ItemSave(1, i)
    \/ DeleteMovie
    \/ CleanExpiredCache
    \/ TTLMonitor
    \/ Tick
    \/ Respond(1)

SpecBatch == InitBatch /\ [][NextBatch]_vars

(***************************************************************************)
(* The listing specification: one caller of GET /api/movies, with and      *)
(* without a search term, over the filters, sort orders and page sizes of  *)
(* ListOptions, and of GET /api/movies/:id, while records expire and are   *)
(* purged.                                                                 *)
(***************************************************************************)
ListTerms == {"begins", "returns", "forever", "gotham"}
ListIds == {"tt0000001", "tt0000002", UnknownId}

YearFilters ==
    {NoFilter, ValueFilter(2005), RangeFilter(1990, 2000),
     RangeFilter(2000, 1990), RangeFilter(1990, 0)}

RatingFilters ==
    {NoFilter, ValueFilter(0), ValueFilter(80), RangeFilter(0, 0),
     RangeFilter(75, Null)}

GenreFilters == {<<>>, <<"Action">>, <<"Fantasy", "Drama">>}

PageSizes == {1, 2, 50}
PageNumbers == {1, 2}

\* Every combination of the filters on the default page, and every page
\* size, page number and sort order without a filter and with one.
ListOptions ==
    {[DefaultOptions EXCEPT !.genre = g, !.year = y, !.rating = r] :
       g \in GenreFilters, y \in YearFilters, r \in RatingFilters}
    \cup
    {[DefaultOptions EXCEPT !.genre = g, !.page = p, !.limit = l,
                            !.sortBy = sb[1], !.sortOrder = sb[2]] :
       g \in {<<>>, <<"Action">>}, p \in PageNumbers, l \in PageSizes,
       sb \in {<<"createdAt", "desc">>, <<"year", "asc">>,
               <<"rating", "desc">>}}

InitList ==
    /\ now = 0
    /\ store = {}
    /\ omdbApiKey = TRUE
    /\ req = [q \in {1} |-> IdleReq]
    /\ client = InitialClient

NextList ==
    \/ StartSearch(1, ListTerms) /\ req'[1].useCache
    \/ SearchCache(1)
    \/ SearchApi(1)
    \/ StartGetById(1, ListIds)
    \/ GetByIdCache(1)
    \/ ItemFetch(1, 1)
    \/ ItemFind(1, 1)
    \/ ItemSave(1, 1)
    \/ RouteSend(1, ListOptions)
    \/ RouteRespond(1)
    \/ ListStart(1, ListOptions)
    \/ ListFind(1)
    \/ ListCount(1)
    \/ PurgeExpired(1)
    \/ req[1].op # "search" /\ Respond(1)
    \/ TTLMonitor
    \/ Tick

SpecList == InitList /\ [][NextList]_vars

(***************************************************************************)
(* The purge specification: two administrators call DELETE /cache/expired  *)
(* while a caller's searches fill the store and records expire.            *)
(***************************************************************************)
PurgeTerms == {"begins", "returns", "forever"}

InitPurge ==
    /\ now = 0
    /\ store = {}
    /\ omdbApiKey = TRUE
    /\ req = [q \in Reqs |-> IdleReq]
    /\ client = InitialClient

NextPurge ==
    \/ StartSearch(1, PurgeTerms) /\ req'[1].useCache
    \/ SearchCache(1)
    \/ SearchApi(1)
    \/ ItemFetch(1, 1)
    \/ ItemFind(1, 1)
    \/ ItemSave(1, 1)
    \/ \E q \in Reqs : PurgeExpired(q)
    \/ \E q \in Reqs : Respond(q)
    \/ TTLMonitor
    \/ Tick

SpecPurge == InitPurge /\ [][NextPurge]_vars

(***************************************************************************)
(* Seeded stores: the records of the first n saga titles, all saved when   *)
(* the clock read 0.                                                       *)
(***************************************************************************)
SeedDoc(id) ==
    LET data == transformOMDBData(CHOOSE raw \in OmdbDetails(id) : TRUE)
    IN  [_id |-> <<id, 1>>, imdbID |-> data.imdbID, title |-> data.title,
         year |-> data.year, genre |-> data.genre, plot |-> data.plot,
         score |-> data.score, source |-> data.source,
         cacheExpiry |-> TTL, lastUpdated |-> 0, createdAt |-> 0]

Seed(n) == {SeedDoc(SagaCatalog[k]) : k \in 1..n}

(***************************************************************************)
(* The sorting specification: one caller of GET /api/movies, with and      *)
(* without a search term, over a seeded store of up to five records, two   *)
(* of them without a score and two with the same score.  The deployment    *)
(* has no provider credential, so a search that misses the cache fails.    *)
(***************************************************************************)
SortSeedSize == 5
SortTerms == {"saga"}

SortOptions ==
    {[DefaultOptions EXCEPT !.sortBy = sb[1], !.sortOrder = sb[2],
                            !.limit = l] :
       sb \in {<<"rating", "desc">>, <<"rating", "asc">>, <<"year", "desc">>,
               <<"createdAt", "desc">>},
       l \in {2, DefaultLimit}}

InitSort ==
    /\ now = 0
    /\ store \in SUBSET Seed(SortSeedSize)
    /\ omdbApiKey = FALSE
    /\ req = [q \in {1} |-> IdleReq]
    /\ client = InitialClient

NextSort ==
    \/ StartSearch(1, SortTerms) /\ req'[1].useCache
    \/ SearchCache(1)
    \/ SearchApi(1)
    \/ RouteSend(1, SortOptions)
    \/ RouteRespond(1)
    \/ ListStart(1, SortOptions)
    \/ ListFind(1)
    \/ ListCount(1)
    \/ PurgeExpired(1)
    \/ req[1].op # "search" /\ Respond(1)
    \/ Tick

SpecSort == InitSort /\ [][NextSort]_vars

(***************************************************************************)
(* The paging specification: one caller of searchMovies for the term of    *)
(* the eleven-title series, over a store seeded with none, one, ten or all *)
(* eleven of its records.  Without a provider credential the caller asks   *)
(* for page 1 or 2; with one it asks for page 2 or 3, whose provider       *)
(* answers hold one title and none.                                        *)
(***************************************************************************)
PagingSeedSizes == {0, 1, 10, 11}
PagingTerms == {"saga"}
PagingPages == IF omdbApiKey THEN {2, 3} ELSE {1, 2}

InitPaging ==
    /\ now = 0
    /\ store \in {Seed(n) : n \in PagingSeedSizes}
    /\ omdbApiKey \in BOOLEAN
    /\ req = [q \in {1} |-> IdleReq]
    /\ client = InitialClient

NextPaging ==
    \/ StartSearchPage(1, PagingTerms, PagingPages) /\ req'[1].useCache
    \/ SearchCache(1)
    \/ SearchApi(1)
    \/ ItemFetch(1, 1)
    \/ ItemFind(1, 1)
    \/ ItemSave(1, 1)
    \/ Respond(1)
    \/ Tick

SpecPaging == InitPaging /\ [][NextPaging]_vars

(***************************************************************************)
(* The cleanup specification: the daily job (slot 1), the development job  *)
(* (slot 2) and a caller of GET /api/movies/:id (slot 3) whose lookups     *)
(* store a record and refresh it once it has expired.                      *)
(***************************************************************************)
CronIds == {"tt0000001"}

InitCron ==
    /\ now = 0
    /\ store = {}
    /\ omdbApiKey = TRUE
    /\ req = [q \in {1, 2, 3} |-> IdleReq]
    /\ client = InitialClient

NextCron ==
    \/ CronTrigger(1, "daily")
    \/ CronTrigger(2, "development")
    \/ \E q \in {1, 2} : CronPurge(q)
    \/ StatsTotal(1)
    \/ StatsExpired(1)
    \/ StatsFails(1)
    \/ \E q \in {1, 2} : CronReturn(q)
    \/ StartGetById(3, CronIds)
    \/ GetByIdCache(3)
    \/ ItemFetch(3, 1)
    \/ ItemFind(3, 1)
    \/ ItemSave(3, 1)
    \/ Respond(3)
    \/ Tick

SpecCron == InitCron /\ [][NextCron]_vars

(***************************************************************************)
(* The production schedule: the daily job alone, with the caller.  The     *)
(* scheduler fires the trigger again and again, the database answers each  *)
(* query, and of the deletes it is asked for again and again it accepts    *)
(* one in the end.                                                         *)
(***************************************************************************)
NextDaily ==
    \/ CronTrigger(1, "daily")
    \/ CronPurge(1)
    \/ StatsTotal(1)
    \/ StatsExpired(1)
    \/ StatsFails(1)
    \/ CronReturn(1)
    \/ StartGetById(3, CronIds)
    \/ GetByIdCache(3)
    \/ ItemFetch(3, 1)
    \/ ItemFind(3, 1)
    \/ ItemSave(3, 1)
    \/ Respond(3)
    \/ Tick

\* The deleteMany of the daily job is accepted.
PurgeAccepted == CronPurge(1) /\ req'[1].out.status # "logged"

SpecDaily ==
    /\ InitCron /\ [][NextDaily]_vars
    /\ WF_vars(CronTrigger(1, "daily"))
    /\ WF_vars(CronPurge(1))
    /\ SF_vars(PurgeAccepted)
    /\ WF_vars(StatsTotal(1) \/ StatsExpired(1) \/ StatsFails(1))
    /\ WF_vars(CronReturn(1))

(***************************************************************************)
(* The curation specification: an administrator calls cleanupByCriteria    *)
(* on a seeded store while the clock runs and the records expire.          *)
(***************************************************************************)
CurationSeedSize == 5

RatingRanges ==
    {NoFilter, RangeFilter(Null, Null), RangeFilter(70, 80),
     RangeFilter(60, 70), RangeFilter(70, Null), RangeFilter(Null, 70)}

YearRanges ==
    {NoFilter, RangeFilter(2000, 2005), RangeFilter(1990, 2000),
     RangeFilter(2000, Null)}

\* One criterion alone, the rating and the year range together, and none.
Criterias ==
    {[NoCriteria EXCEPT !.rating = r] : r \in RatingRanges}
    \cup {[NoCriteria EXCEPT !.year = y] : y \in YearRanges}
    \cup {[NoCriteria EXCEPT !.rating = RangeFilter(70, Null), !.year = y] :
            y \in YearRanges}
    \cup {[NoCriteria EXCEPT !.genre = g] : g \in {<<"Drama">>, <<"Action">>}}
    \cup {[NoCriteria EXCEPT !.olderThan = t] : t \in {0, TickMs}}

InitCuration ==
    /\ now = 0
    /\ store \in SUBSET Seed(CurationSeedSize)
    /\ omdbApiKey = FALSE
    /\ req = [q \in {1} |-> IdleReq]
    /\ client = InitialClient

NextCuration ==
    \/ CleanupByCriteria(1, Criterias)
    \/ Respond(1)
    \/ Tick

SpecCuration == InitCuration /\ [][NextCuration]_vars

(***************************************************************************)
(* The validation specification: one caller of GET /api/movies and of      *)
(* GET /api/movies/:id whose parameters are well formed or malformed in    *)
(* one place.                                                              *)
(***************************************************************************)
ValidationTerms == {Absent, "begins", ""}

PathIds ==
    {"tt0000001", "tt0000009", "tt00000001", "tt000000001", "tt000001",
     "tt000000x", "nm0000001", "batman"}

\* The query strings: a search term or none, and at most one other
\* parameter.
Queries ==
    LET base == {[NoQuery EXCEPT !.search = t] : t \in ValidationTerms}
    IN  UNION {
          {b} \cup
          {[b EXCEPT !.limit = l] : l \in {0, 1, 50, 51}} \cup
          {[b EXCEPT !.page = n] : n \in {0, 1, 2}} \cup
          {[b EXCEPT !.sort = k] : k \in {"rating", "popularity"}} \cup
          {[b EXCEPT !.order = o] : o \in {"asc", "down"}} \cup
          {[b EXCEPT !.year = y] :
             y \in {ValueFilter(2005), ValueFilter(1887),
                    ValueFilter(SchemaYearMax + 1),
                    RangeFilter(1990, 2010), RangeFilter(1887, Null),
                    RangeFilter(Null, SchemaYearMax + 1),
                    RangeFilter(Null, 1887), RangeFilter(SchemaYearMax + 1, Null)}} \cup
          {[b EXCEPT !.rating = r] :
             r \in {ValueFilter(80), ValueFilter(101), ValueFilter(0 - 5),
                    RangeFilter(70, 90), RangeFilter(0 - 5, Null),
                    RangeFilter(Null, 101)}}
          : b \in base}

InitValidation ==
    /\ now = 0
    /\ store = {}
    /\ omdbApiKey = TRUE
    /\ req = [q \in {1} |-> IdleReq]
    /\ client = InitialClient

NextValidation ==
    \/ GetMovies(1, Queries)
    \/ SearchCache(1)
    \/ SearchApi(1)
    \/ GetMovie(1, PathIds)
    \/ GetByIdCache(1)
    \/ ItemFetch(1, 1)
    \/ ItemFind(1, 1)
    \/ ItemSave(1, 1)
    \/ RouteSend(1, {req[1].opts})
    \/ RouteRespond(1)
    \/ ListFind(1)
    \/ ListCount(1)
    \/ req[1].op # "search" /\ Respond(1)
    \/ Tick

SpecValidation == InitValidation /\ [][NextValidation]_vars

(***************************************************************************)
(* The administration specification: two callers of the administrative     *)
(* routes, the first with any credential, the second an administrator or a *)
(* plain user, over a seeded store whose records expire.                   *)
(***************************************************************************)
AdminSeedSize == 2
AdminIds == {"tt0000101", UnknownId}
AdminCredentials(q) ==
    IF q = 1 THEN Credentials
    ELSE {[kind |-> "valid", userId |-> u] : u \in {"u1", "u3"}}

InitAdmin ==
    /\ now = 0
    /\ store = Seed(AdminSeedSize)
    /\ omdbApiKey = TRUE
    /\ req = [q \in Reqs |-> IdleReq]
    /\ client = InitialClient

NextAdmin ==
    \/ \E q \in Reqs : AdminRequest(q, AdminOps, AdminIds, AdminCredentials(q))
    \/ \E q \in Reqs : Authenticate(q)
    \/ \E q \in Reqs : AdminDelete(q)
    \/ \E q \in Reqs : AdminDeleteMany(q)
    \/ \E q \in Reqs : PutFind(q)
    \/ \E q \in Reqs : ItemFetch(q, 1)
    \/ \E q \in Reqs : ItemSave(q, 1)
    \/ \E q \in Reqs : Respond(q)
    \/ Tick

SpecAdmin == InitAdmin /\ [][NextAdmin]_vars

(***************************************************************************)
(* The statistics specification: one caller of getCacheStats and of the    *)
(* purge over a seeded store whose records expire.                         *)
(***************************************************************************)
StatsSeedSize == 3

InitStats ==
    /\ now = 0
    /\ store \in SUBSET Seed(StatsSeedSize)
    /\ omdbApiKey = FALSE
    /\ req = [q \in {1} |-> IdleReq]
    /\ client = InitialClient

NextStats ==
    \/ StatsStart(1)
    \/ StatsTotal(1)
    \/ StatsExpired(1)
    \/ StatsFails(1)
    \/ PurgeExpired(1)
    \/ Respond(1)
    \/ Tick

SpecStats == InitStats /\ [][NextStats]_vars

(***************************************************************************)
(* The browser.  A call of the API that awaits its answer is a record of   *)
(* its kind, the token the request interceptor attached when it was sent,  *)
(* and its argument.  The server's tokens do not end with a logout.        *)
(***************************************************************************)
AuthUserIds == {"u1", "u3"}
ProfileNames == {"old", "new"}
MaxCalls == 2

TokenOf(id) == CASE id = "u1" -> "jwt-u1" [] id = "u3" -> "jwt-u3"
RefreshOf(id) == CASE id = "u1" -> "refresh-u1" [] id = "u3" -> "refresh-u3"
OwnerOf(token) == CHOOSE id \in AuthUserIds : TokenOf(id) = token

MsgRequestFailed == "An error occurred"

\* A function of the context is called and its request is sent.
Send(kind, userData) ==
    [client EXCEPT !.calls = @ \cup {[kind |-> kind,
                                      bearer |-> client.localStorage.token,
                                      userData |-> userData]}]

Dispatch(c, action) == [c EXCEPT !.state = authReducer(@, action)]

Answered(c, call) == [c EXCEPT !.calls = @ \ {call}]

\* login(credentials) and register(userData) up to the await
LoginStart(kinds) ==
    /\ Cardinality(client.calls) < MaxCalls
    /\ \E kind \in kinds, id \in AuthUserIds :
         client' = Dispatch(Send(kind, id), [type |-> "LOGIN_START"])
    /\ UNCHANGED <<now, store, omdbApiKey, req>>

\* The answer to login or register carries user, token and refreshToken.
LoginSuccess ==
    /\ \E call \in client.calls, name \in ProfileNames :
         /\ call.kind \in {"login", "register"}
         /\ LET user == [id |-> call.userData, name |-> name]
                token == TokenOf(call.userData)
            IN  client' =
                  Dispatch([Answered(client, call) EXCEPT
                              !.loggedOut = FALSE,
                              !.localStorage =
                                 [token |-> token, user |-> user,
                                  refreshToken |-> RefreshOf(call.userData)]],
                           [type |-> "LOGIN_SUCCESS",
                            payload |-> [user |-> user, token |-> token]])
    /\ UNCHANGED <<now, store, omdbApiKey, req>>

\* login or register is refused with a status other than 401, or no answer
\* comes.
LoginFailure ==
    /\ \E call \in client.calls :
         /\ call.kind \in {"login", "register"}
         /\ client' = Dispatch(Answered(client, call),
                               [type |-> "LOGIN_FAILURE",
                                payload |-> MsgRequestFailed])
    /\ UNCHANGED <<now, store, omdbApiKey, req>>

\* logout() up to the await
LogoutStart ==
    /\ Cardinality(client.calls) < MaxCalls
    /\ client' = Send("logout", "none")
    /\ UNCHANGED <<now, store, omdbApiKey, req>>

\* The finally block of logout, after an answer or an error other than 401.
LogoutFinally ==
    /\ \E call \in client.calls :
         /\ call.kind = "logout"
         /\ client' = Dispatch([Answered(client, call) EXCEPT
                                  !.loggedOut = TRUE,
                                  !.localStorage = EmptyStorage],
                               [type |-> "LOGOUT"])
    /\ UNCHANGED <<now, store, omdbApiKey, req>>

\* updateProfile(userData) up to the await
UpdateProfileStart ==
    /\ Cardinality(client.calls) < MaxCalls
    /\ \E name \in ProfileNames : client' = Send("updateProfile", name)
    /\ UNCHANGED <<now, store, omdbApiKey, req>>

\* PUT /auth/profile answers the bearer of a token with the updated user.
UpdateProfileSuccess ==
    /\ \E call \in client.calls :
         /\ call.kind = "updateProfile" /\ call.bearer # NullToken
         /\ LET updatedUser == [id |-> OwnerOf(call.bearer),
                                name |-> call.userData]
            IN  client' =
                  Dispatch([Answered(client, call) EXCEPT
                              !.localStorage.user = updatedUser],
                           [type |-> "UPDATE_USER", payload |-> updatedUser])
    /\ UNCHANGED <<now, store, omdbApiKey, req>>

\* updateProfile is refused with a status other than 401, or no answer
\* comes.
UpdateProfileFailure ==
    /\ \E call \in client.calls :
         /\ call.kind = "updateProfile"
         /\ client' = Answered(client, call)
    /\ UNCHANGED <<now, store, omdbApiKey, req>>

\* An answer with status 401: the response interceptor removes token and
\* user from localStorage and sends the browser to /login, the function
\* that awaited the answer runs its catch or finally block, and the page is
\* loaded anew.
Unauthorized ==
    /\ \E call \in client.calls :
         /\ call.kind = "logout" => call.bearer = NullToken
         /\ LET removed == [client.localStorage EXCEPT !.token = NullToken,
                                                       !.user = NullUser]
            IN  client' =
                  IF call.kind = "logout"
                  THEN [Mounted(EmptyStorage) EXCEPT !.loggedOut = TRUE]
                  ELSE [Mounted(removed) EXCEPT
                          !.loggedOut = client.loggedOut]
    /\ UNCHANGED <<now, store, omdbApiKey, req>>

(***************************************************************************)
(* The session specification: one browser, its page loaded over an empty   *)
(* localStorage or over the one a login of u1 left.                        *)
(***************************************************************************)
StoredSession ==
    [token |-> TokenOf("u1"), user |-> [id |-> "u1", name |-> "old"],
     refreshToken |-> RefreshOf("u1")]

InitAuth ==
    /\ now = 0
    /\ store = {}
    /\ omdbApiKey = FALSE
    /\ req = [q \in {1} |-> IdleReq]
    /\ client \in {Mounted(EmptyStorage), Mounted(StoredSession)}

NextAuth ==
    \/ LoginStart({"login"})
    \/ LoginStart({"register"})
    \/ LoginSuccess
    \/ LoginFailure
    \/ LogoutStart
    \/ LogoutFinally
    \/ UpdateProfileStart
    \/ UpdateProfileSuccess
    \/ UpdateProfileFailure
    \/ Unauthorized

SpecAuth == InitAuth /\ [][NextAuth]_vars

TypeOK ==
    /\ now \in 0..(MaxTicks * TickMs)
    /\ \A d \in store : d.imdbID \in ImdbIds /\ d.cacheExpiry > 0
    /\ \A q \in DOMAIN req : req[q].pc \in {"idle", "cache", "api", "find", "items", "list", "done", "sent",
                       "stats", "purge", "auth", "admitted"}

(***************************************************************************)
(* Properties.                                                             *)
(***************************************************************************)
Q == DOMAIN req

Done(r, op) == r.op = op /\ r.pc = "done"

\* The request q takes a step.
Steps(q) == req'[q] # req[q]

DocsOf(S, imdbID) == {d \in S : d.imdbID = imdbID}

\* The normalized fields of a stored document are those of a payload.
SameFields(d, data) ==
    /\ d.imdbID = data.imdbID /\ d.title = data.title /\ d.year = data.year
    /\ d.plot = data.plot /\ d.score = data.score /\ d.source = data.source
    /\ d.genre = data.genre

SeqIds(movies) == {movies[k].imdbID : k \in 1..Len(movies)}

\* No other writer changed or removed the document since the item loaded it.
Undisturbed(it) == it.snap = NoSnap \/ it.snap \in store

\* C1, first half: a search that missed the cache and got one match whose
\* detail fetch and save succeeded returns exactly that record tagged api,
\* and the record is in the store with cacheExpiry = now + 24h (and, no
\* other writer having come between, with the fields of the payload).
C1_ApiResult ==
    \A q \in Q :
      ( /\ req[q].op = "search" /\ req[q].pc = "items" /\ Len(req[q].items) = 1
        /\ req'[q].pc = "done" /\ req'[q].items[1].st = "ok" )
      => /\ req'[q].out.status = "ok" /\ req'[q].out.source = "api"
         /\ req'[q].out.movies = <<req[q].items[1].data>>
         /\ \E d \in store' :
              /\ d.imdbID = req[q].items[1].id
              /\ d.cacheExpiry = now + TTL
              /\ Undisturbed(req[q].items[1]) => SameFields(d, req[q].items[1].data)

\* C1, second half: while that record is still stored and not expired, the
\* cache lookup of another search for the same term returns it tagged cache
\* and the search ends there, with no provider call.
C1_Repeat ==
    \A a \in Q, b \in Q :
      ( /\ a # b
        /\ Done(req[a], "search") /\ req[a].out.source = "api"
        /\ Len(req[a].out.movies) = 1
        /\ req[b].op = "search" /\ req[b].pc = "cache" /\ Steps(b)
        /\ req[b].arg = req[a].arg
        /\ \E d \in store : /\ d.imdbID = req[a].out.movies[1].imdbID
                            /\ d.cacheExpiry > now )
      => /\ req'[b].pc = "done" /\ req'[b].out.status = "ok"
         /\ req'[b].out.source = "cache"
         /\ req[a].out.movies[1].imdbID \in SeqIds(req'[b].out.movies)
         /\ req'[b].calls = 0

\* C1: a search that misses, gets one match and persists it returns the
\* record tagged api and stores it with cacheExpiry = now + 24h; a repeat of
\* the search before expiry or deletion returns the record tagged cache
\* without a provider call.
C1_MissThenHit == [][C1_ApiResult /\ C1_Repeat]_vars

\* A search ended on the API path with one record, and a second search for
\* the same term has returned that stored record from the cache.
C1_Witness ==
    \E a \in Q, b \in Q :
      /\ a # b
      /\ Done(req[a], "search") /\ req[a].out.source = "api" /\ req[a].useCache
      /\ Len(req[a].out.movies) = 1
      /\ Done(req[b], "search") /\ req[b].out.source = "cache"
      /\ req[b].arg = req[a].arg /\ req[b].calls = 0
      /\ Len(req[b].out.movies) = 1
      /\ req[b].out.movies[1].imdbID = req[a].out.movies[1].imdbID
      /\ req[b].out.movies[1].cacheExpiry = req[a].items[1].exp
      /\ req[b].out.movies[1] \in store

\* The store holds an active record the lookup of request r matches.
HasActiveMatch(r) ==
    \E d \in store :
      /\ d.cacheExpiry > now
      /\ IF r.op = "search"
         THEN r.arg \in Range(d.title) \cup Range(d.plot)
         ELSE d.imdbID = r.arg

\* C2: when the cache lookup of searchByTerm (useCache) or getById finds an
\* active matching record, the call returns tagged cache, makes no provider
\* call and leaves the store as it was.
C2_CacheHitFrame ==
    [][\A q \in Q :
         ( /\ req[q].op \in {"search", "getById"} /\ req[q].pc = "cache"
           /\ Steps(q) /\ HasActiveMatch(req[q]) )
         => /\ req'[q].pc = "done" /\ req'[q].out.status = "ok"
            /\ req'[q].out.source = "cache"
            /\ Len(req'[q].out.movies) > 0
            /\ req'[q].calls = 0
            /\ store' = store]_vars

\* A getById and a search have both been answered from the cache.
C2_Witness ==
    /\ \E q \in Q : /\ Done(req[q], "getById") /\ req[q].out.source = "cache"
                    /\ req[q].calls = 0 /\ req[q].out.movies[1] \in store
    /\ \E q \in Q : /\ Done(req[q], "search") /\ req[q].out.source = "cache"
                    /\ req[q].calls = 0 /\ req[q].out.movies[1] \in store

\* The expiry dates of the records a finished request returned.
ReturnedExpiries(r) ==
    IF r.op = "search" /\ r.out.source = "api"
    THEN {r.items[i].exp : i \in {j \in 1..Len(r.items) : r.items[j].st = "ok"}}
    ELSE {r.out.movies[k].cacheExpiry : k \in 1..Len(r.out.movies)}

\* C3: no record returned by searchByTerm, getById or listCached is expired
\* at the time of the read; an expired record still stored is not served.
C3_NoExpiredServed ==
    \A q \in Q :
      ( /\ req[q].pc = "done" /\ req[q].op \in {"search", "getById", "list"}
        /\ req[q].out.status = "ok" )
      => \A e \in ReturnedExpiries(req[q]) : e > req[q].out.readAt

\* A read answered from the store while an expired record that matches the
\* request is still stored: the record is left out of the answer.
C3_Witness ==
    \E q \in Q :
      /\ req[q].pc = "done" /\ req[q].op \in {"search", "list"}
      /\ req[q].out.source = "cache" /\ Len(req[q].out.movies) > 0
      /\ req[q].out.readAt = now
      /\ \E d \in store :
           /\ d.cacheExpiry <= now
           /\ req[q].op = "search" => req[q].arg \in Range(d.title) \cup Range(d.plot)
           /\ d.imdbID \notin SeqIds(req[q].out.movies)

FailedItems(r) == {i \in 1..Len(r.items) : r.items[i].st = "fail"}
OkItems(r) == {i \in 1..Len(r.items) : r.items[i].st = "ok"}

\* C4: in a search on the API path over n identifiers, every item that
\* succeeds is persisted when it succeeds, no failure of an item ends the
\* call with an error, and the call returns exactly the n - k records of the
\* items that did not fail, none of the k failed ones among them.
C4_PartialBatch ==
    [][\A q \in Q :
         (req[q].op = "search" /\ req[q].pc = "items" /\ Steps(q))
         => /\ req'[q].pc \in {"items", "done"}
            /\ \A i \in OkItems(req'[q]) \ OkItems(req[q]) :
                 \E d \in store' : /\ d.imdbID = req[q].items[i].id
                                   /\ d.cacheExpiry = now + TTL
            /\ req'[q].pc = "done" =>
                 /\ req'[q].out.status = "ok" /\ req'[q].out.source = "api"
                 /\ FailedItems(req'[q]) \cup OkItems(req'[q]) =
                      1..Len(req'[q].items)
                 /\ Len(req'[q].out.movies) =
                      Len(req'[q].items) - Cardinality(FailedItems(req'[q]))
                 /\ SeqIds(req'[q].out.movies) =
                      {req'[q].items[i].id : i \in OkItems(req'[q])}
                 /\ \A i \in FailedItems(req'[q]) :
                      req'[q].items[i].id \notin SeqIds(req'[q].out.movies)]_vars

\* A search over three identifiers of which one failed has returned the two
\* others, both stored.
C4_Witness ==
    \E q \in Q :
      /\ Done(req[q], "search") /\ req[q].out.source = "api"
      /\ Len(req[q].items) = 3 /\ Cardinality(FailedItems(req[q])) = 1
      /\ Len(req[q].out.movies) = 2 /\ req[q].out.status = "ok"
      /\ \A k \in 1..2 : DocsOf(store, req[q].out.movies[k].imdbID) # {}

\* C5: every stored record has a cacheExpiry, which is its lastUpdated plus
\* the TTL, and every step that creates or refreshes a record sets both
\* from the clock: cacheExpiry = now + 24h.
C5_ExpiryIsRefreshPlusTTL ==
    /\ [](\A d \in store : d.cacheExpiry = d.lastUpdated + TTL)
    /\ [][\A d \in store' \ store :
            d.cacheExpiry = now + TTL /\ d.lastUpdated = now]_vars

\* A record created by one request has later been refreshed by the admin
\* update.
C5_Witness ==
    \E q \in Q :
      /\ Done(req[q], "put") /\ req[q].out.status = "ok"
      /\ \E d \in store :
           /\ d._id = req[q].items[1].snap._id
           /\ d.lastUpdated > req[q].items[1].snap.lastUpdated
           /\ d.cacheExpiry = d.lastUpdated + TTL

\* C6: the store holds at most one record per external identifier.
C6_UniqueImdbID ==
    \A d1 \in store, d2 \in store : d1.imdbID = d2.imdbID => d1 = d2

\* Two requests found the identifier absent and both inserted it: one insert
\* was refused, and the store holds one record.
C6_Witness ==
    \E a \in Q, b \in Q :
      /\ a # b
      /\ Done(req[a], "getById") /\ req[a].out.msg = MsgSaveFailed
      /\ req[b].op = "search" /\ Len(req[b].items) = 1
      /\ req[b].items[1].st = "ok" /\ req[b].items[1].snap = NoSnap
      /\ req[b].items[1].id = req[a].arg
      /\ Cardinality(DocsOf(store, req[a].arg)) = 1

\* C7: an upsert of a valid payload whose identifier is stored takes the
\* update path and, no other writer coming between, succeeds and leaves one
\* record for the identifier: the same document, its normalized fields those
\* of the payload, cacheExpiry = now + TTL and lastUpdated = now.
C7_UpsertIdempotent ==
    [][\A q \in Q : \A i \in 1..Len(req[q].items) :
         LET it == req[q].items[i] IN
         /\ ( /\ req[q].op \in {"search", "getById"} /\ req[q].pc = "items"
              /\ it.st = "find" /\ Steps(q)
              /\ DocsOf(store, it.data.imdbID) # {} )
            => req'[q].items[i].snap \in DocsOf(store, it.data.imdbID)
         /\ ( /\ req[q].op \in {"search", "getById"} /\ req[q].pc = "items"
              /\ it.st = "save" /\ req'[q].items[i].st # "save"
              /\ it.snap \in store /\ Validate(it.data) )
            => /\ req'[q].items[i].st = "ok"
               /\ Cardinality(store') = Cardinality(store)
               /\ \E d \in store' :
                    /\ DocsOf(store', it.data.imdbID) = {d}
                    /\ d._id = it.snap._id
                    /\ SameFields(d, it.data)
                    /\ d.cacheExpiry = now + TTL /\ d.lastUpdated = now
         /\ ( /\ req[q].op \in {"search", "getById"} /\ req[q].pc = "items"
              /\ it.st = "save" /\ req'[q].items[i].st # "save"
              /\ it.snap = NoSnap /\ DocsOf(store, it.data.imdbID) = {}
              /\ Validate(it.data) )
            => /\ req'[q].items[i].st = "ok"
               /\ \E d \in store' :
                    /\ DocsOf(store', it.data.imdbID) = {d}
                    /\ SameFields(d, it.data)
                    /\ d.cacheExpiry = now + TTL /\ d.lastUpdated = now]_vars

\* A second upsert of an identifier has overwritten the stored record with a
\* payload that differs from it, and pushed its expiry.
C7_Witness ==
    \E q \in Q :
      /\ req[q].op \in {"search", "getById"} /\ Len(req[q].items) = 1
      /\ req[q].items[1].st = "ok" /\ req[q].items[1].snap # NoSnap
      /\ req[q].items[1].data.score # req[q].items[1].snap.score
      /\ \E d \in store :
           /\ d._id = req[q].items[1].snap._id
           /\ SameFields(d, req[q].items[1].data)
           /\ d.cacheExpiry > req[q].items[1].snap.cacheExpiry

\* C8: two calls that both found an identifier absent and both upsert it:
\* every such upsert of a valid payload succeeds, so no caller fails or
\* loses the record from its result, and the store ends with one record.
C8_AtomicUpsert ==
    [][\A q \in Q : \A i \in 1..Len(req[q].items) :
         LET it == req[q].items[i] IN
         ( /\ req[q].op \in {"search", "getById"} /\ req[q].pc = "items"
           /\ it.st = "save" /\ req'[q].items[i].st # "save"
           /\ it.snap = NoSnap /\ Validate(it.data) )
         => /\ req'[q].items[i].st = "ok"
            /\ Cardinality(DocsOf(store', it.data.imdbID)) = 1]_vars

\* C9: a getById that finds no active record goes on to the provider; when
\* the payload is valid and no other writer comes between, its save succeeds;
\* and a getById answered from the provider has called it exactly once,
\* returns the record tagged api, and leaves in the store exactly one record
\* of the identifier, active, with cacheExpiry = now + TTL.
C9_GetByIdMiss ==
    [][\A q \in Q :
         /\ ( /\ req[q].op = "getById" /\ req[q].pc = "cache" /\ Steps(q)
              /\ ~HasActiveMatch(req[q]) )
            => /\ req'[q].pc = "items" /\ req'[q].calls = 0
               /\ Len(req'[q].items) = 1 /\ req'[q].items[1].st = "fetch"
               /\ store' = store
         /\ ( /\ req[q].op = "getById" /\ req[q].pc = "items" /\ Steps(q)
              /\ req[q].items[1].st = "save" /\ Validate(req[q].items[1].data)
              /\ Undisturbed(req[q].items[1])
              /\ req[q].items[1].snap = NoSnap => DocsOf(store, req[q].arg) = {} )
            => req'[q].out.status = "ok"
         /\ ( /\ req[q].op = "getById" /\ req[q].pc = "items"
              /\ req'[q].pc = "done" /\ req'[q].out.status = "ok" )
            => /\ req'[q].out.source = "api" /\ req'[q].calls = 1
               /\ Len(req'[q].out.movies) = 1
               /\ req'[q].out.movies[1].imdbID = req[q].arg
               /\ \E d \in store' :
                    /\ DocsOf(store', req[q].arg) = {d}
                    /\ d.cacheExpiry = now + TTL /\ d.cacheExpiry > now
                    /\ d._id = req'[q].out.movies[1]._id]_vars

\* A getById found the record expired but still stored, fetched it from the
\* provider and refreshed the stored record.
C9_Witness ==
    \E q \in Q :
      /\ Done(req[q], "getById") /\ req[q].out.source = "api" /\ req[q].calls = 1
      /\ req[q].items[1].snap # NoSnap
      /\ req[q].items[1].snap.cacheExpiry <= req[q].out.readAt
      /\ \E d \in store : /\ d._id = req[q].items[1].snap._id
                          /\ d.cacheExpiry > now

\* The provider answered Response 'False' to the detail request.
ProviderSaidNoSuchId(msg) ==
    \E e \in OmdbErrors :
      msg = PrefixFetchDetails \o (IF e = ErrAbsent THEN MsgDefaultNotFound ELSE e)

\* The detail request failed in transport.
TransportFailed(msg) == \E e \in TransportErrors : msg = PrefixFetchDetails \o e

\* C10: when the provider reports that it has no such identifier, whatever
\* its error string, GET /movies/:id answers 404; a transport failure answers
\* 5xx; in both cases the store is unchanged.
C10_NotFoundIs404 ==
    [][\A q \in Q :
         ( /\ req[q].op = "getById" /\ req[q].pc = "items" /\ Steps(q)
           /\ req[q].items[1].st = "fetch" /\ req'[q].out.status = "error" )
         => /\ store' = store
            /\ ProviderSaidNoSuchId(req'[q].out.msg) => req'[q].out.http = 404
            /\ TransportFailed(req'[q].out.msg) => req'[q].out.http \in 500..599]_vars

\* The messages searchMoviesOMDB can throw.
SearchErrors ==
    {PrefixSearch \o m : m \in TransportErrors \cup {MsgKeyNotConfigured}}

\* C11: a search that goes to the provider leaves the store as it is and
\* calls the provider at most once; without the credential it makes no call
\* and fails with the configuration error; it returns without an error only
\* when the provider answered, so a failed or timed out call ends the request
\* with the wrapped error, no records and no further attempt.
C11_SearchErrorPropagates ==
    [][\A q \in Q :
         (req[q].op = "search" /\ req[q].pc = "api" /\ Steps(q))
         => /\ store' = store
            /\ req'[q].calls <= 1
            /\ ~omdbApiKey =>
                 /\ req'[q].pc = "done" /\ req'[q].out.status = "error"
                 /\ req'[q].out.msg = PrefixSearch \o MsgKeyNotConfigured
                 /\ req'[q].calls = 0
            /\ omdbApiKey => req'[q].calls = 1
            /\ (req'[q].pc = "done" /\ req'[q].out.status # "error") =>
                 /\ omdbApiKey
                 /\ OmdbSearch(req[q].arg, req[q].page) = <<>>
            /\ req'[q].out.status = "error" =>
                 /\ req'[q].pc = "done"
                 /\ req'[q].out.msg \in SearchErrors
                 /\ req'[q].out.movies = <<>>
                 /\ req'[q].out.http = 500]_vars

\* A search that looked into the cache, found nothing active for its term
\* in a store that holds a record, called the provider once and failed with
\* the wrapped timeout.
C11_Witness ==
    \E q \in Q :
      /\ Done(req[q], "search") /\ req[q].useCache
      /\ req[q].out.status = "error"
      /\ req[q].out.msg = PrefixSearch \o MsgTimeout
      /\ req[q].calls = 1 /\ req[q].out.movies = <<>>
      /\ store # {}

\* C12: every search that returns without an error returns a list of
\* records, a total, a source tag that is cache or api, and the page that
\* was asked for.
C12_ReturnShape ==
    \A q \in Q :
      (Done(req[q], "search") /\ req[q].out.status = "ok")
      => /\ req[q].out.source \in {"cache", "api"}
         /\ req[q].out.page = req[q].page
         /\ req[q].out.total >= 0
         /\ Len(req[q].out.movies) >= 0

\* The listing q gets the answer of its find or of its count in this step.
Reads(q, query) ==
    req[q].op = "list" /\ query \in req'[q].got \ req[q].got

\* C13: no step of a listing calls the provider or changes the store; the
\* page it reads holds stored records that are active at the read; and on an
\* empty store the page is empty and the count 0.
C13_ListFrame ==
    [][\A q \in Q :
         ((req[q].op = "list" \/ req'[q].op = "list") /\ Steps(q))
         => /\ store' = store
            /\ req'[q].calls = 0 /\ req'[q].items = <<>>
            /\ req'[q].pc \in {"list", "done", "idle"}
            /\ req'[q].out.status \in {"ok", "none"}
            /\ Reads(q, "find") =>
                 /\ \A k \in 1..Len(req'[q].out.movies) :
                      /\ req'[q].out.movies[k] \in store
                      /\ req'[q].out.movies[k].cacheExpiry > now
                 /\ store = {} => req'[q].out.movies = <<>>
            /\ (Reads(q, "count") /\ store = {}) =>
                 /\ req'[q].out.total = 0 /\ req'[q].out.pages = 0]_vars

\* A listing with a filter has returned the active records that match while
\* a record that matches the filter but is no longer active is stored.
C13_Witness ==
    \E q \in Q :
      /\ Done(req[q], "list") /\ req[q].out.readAt = now
      /\ req[q].opts.genre = <<"Action">>
      /\ Len(req[q].out.movies) > 0 /\ req[q].calls = 0
      /\ \E d \in store :
           /\ d.cacheExpiry <= now /\ "Action" \in Range(d.genre)
           /\ d \notin Range(req[q].out.movies)

\* The request q answers a purge in this step.
Purges(q) ==
    req[q].pc = "idle" /\ req'[q].op = "purge" /\ req'[q].pc = "done"

Min(a, b) == IF a < b THEN a ELSE b
Max(a, b) == IF a > b THEN a ELSE b

\* C16: a listing of page p >= 1 with limit l in 1..50, over the t active
\* records that match its filters when it reads, gets exactly
\* min(l, max(0, t - (p-1)*l)) records from its find, and t and
\* ceil(t/l), the least number of pages of l records that hold t, from its
\* count.
C16_PageArithmetic ==
    [][\A q \in Q :
         LET o == req[q].opts
             t == Cardinality(QueryMatches(o))
         IN  /\ (Reads(q, "find") /\ o.page >= 1 /\ o.limit \in 1..50) =>
                  Len(req'[q].out.movies) =
                    Min(o.limit, Max(0, t - (o.page - 1) * o.limit))
             /\ (Reads(q, "count") /\ o.page >= 1 /\ o.limit \in 1..50) =>
                  /\ req'[q].out.total = t
                  /\ req'[q].out.pages * o.limit >= t
                  /\ (req'[q].out.pages - 1) * o.limit < t
                  /\ req'[q].out.pages >= 0
                  /\ req'[q].out.page = o.page /\ req'[q].out.limit = o.limit]_vars

\* Page 2 at limit 1 over three active records: exactly one record, the
\* limit, and three pages, with a further page behind it.
C16_Witness ==
    \E q \in Q :
      /\ Done(req[q], "list") /\ req[q].opts.page = 2 /\ req[q].opts.limit = 1
      /\ req[q].opts.genre = <<>>
      /\ Cardinality({d \in store : d.cacheExpiry > now}) = 3
      /\ Len(req[q].out.movies) = 1
      /\ req[q].out.total = 3 /\ req[q].out.pages = 3

\* The route filters the result of the search q in this step.
Filters(q) ==
    /\ req[q].op = "search" /\ req[q].pc = "done" /\ req'[q].pc = "sent"
    /\ req[q].out.status = "ok"

\* C17: the data of every GET /movies response is a slice of at most limit
\* records, pagination.pages is ceil(total/limit), and the pagination of a
\* response to a search describes the filtered records the data was taken
\* from: it counts at least the data, and when the records came from the
\* store and the first page has room for all of them, exactly the data.
C17_SliceAndTotals ==
    [][\A q \in Q :
         /\ Reads(q, "find") =>
              Len(req'[q].out.movies) <= req'[q].out.limit
         /\ Reads(q, "count") =>
              req'[q].out.pages = Ceil(req'[q].out.total, req'[q].out.limit)
         /\ Filters(q) =>
              /\ Len(req'[q].out.movies) <= req'[q].out.limit
              /\ Len(req'[q].out.movies) <= req'[q].out.total
              /\ req'[q].out.pages =
                   Ceil(req'[q].out.total, req'[q].out.limit)
              /\ ( /\ req'[q].out.source = "cache" /\ req'[q].out.page = 1
                   /\ req'[q].out.total <= req'[q].out.limit )
                 => Len(req'[q].out.movies) = req'[q].out.total]_vars

\* A bound of a range that the query string gave.
Given(v) == v # Null

\* x lies in the inclusive range of the filter f.
InRange(x, f) ==
    /\ x # Null
    /\ Given(f.min) => f.min <= x
    /\ Given(f.max) => x <= f.max

\* The listing q reads its page in this step, the page having room for
\* every stored record.
ReadsAll(q) ==
    /\ Reads(q, "find") /\ req[q].opts.page = 1
    /\ req[q].opts.limit >= Cardinality(store)

\* C18: with a year range as the only filter, the stored listing returns
\* the active records, and the route returns the records of the search
\* result, whose year lies in the inclusive range, and no other; a range
\* with min > max returns nothing.
C18_YearRange ==
    [][\A q \in Q :
         /\ ( /\ ReadsAll(q) /\ req[q].opts.year.kind = "range"
              /\ req[q].opts.genre = <<>> /\ req[q].opts.rating = NoFilter )
            => Range(req'[q].out.movies) =
                 {d \in store : d.cacheExpiry > now
                                /\ InRange(d.year, req[q].opts.year)}
         /\ ( /\ Filters(q) /\ req'[q].opts.year.kind = "range"
              /\ req'[q].opts.genre = <<>> /\ req'[q].opts.rating = NoFilter )
            => Range(req'[q].out.movies) =
                 {m \in Range(req[q].out.movies) :
                    InRange(m.year, req'[q].opts.year)}]_vars

\* The score of record m passes the rating filter f.
RatingAllows(m, f) ==
    IF f.kind = "range" THEN InRange(m.score, f)
    ELSE m.score # Null /\ m.score >= f.value

\* C19: with a rating filter, every record the stored listing or the route
\* returns has a score that is at least the value, or lies in the inclusive
\* range, also when a bound is 0.
C19_RatingBounds ==
    [][\A q \in Q :
         /\ (Reads(q, "find") /\ req[q].opts.rating.kind # "none")
            => \A k \in 1..Len(req'[q].out.movies) :
                 RatingAllows(req'[q].out.movies[k], req[q].opts.rating)
         /\ (Filters(q) /\ req'[q].opts.rating.kind # "none")
            => \A k \in 1..Len(req'[q].out.movies) :
                 RatingAllows(req'[q].out.movies[k], req'[q].opts.rating)]_vars

\* C20: over the active records of the store as the candidate set, the
\* filter the route applies in memory selects, for every combination of
\* genre, year and rating filters, the records the query of the stored
\* listing selects.
C20_FilterEquivalence ==
    \A o \in ListOptions :
      Range(MemoryFilter(DocsToSeq({d \in store : Active(d)}), o)) =
        QueryMatches(o)

\* The position of the record m in the list.
IndexOf(movies, m) == CHOOSE k \in 1..Len(movies) : movies[k] = m

\* The list is in descending order of score, a null score counting as 0,
\* so that the records without a score come last.
NullLowDescending(movies) ==
    \A i, j \in 1..Len(movies) :
      i < j => /\ JsNum(movies[i].score) >= JsNum(movies[j].score)
               /\ movies[i].score = Null => movies[j].score = Null

\* The request q asked for the descending order of ratings.
ByRatingDescending(r) ==
    r.opts.sortBy = "rating" /\ r.opts.sortOrder = "desc"

\* C21: a response sorted by rating, descending, is sent without an error
\* and holds every candidate record, those without a score included and
\* placed last, as a score of 0 is; records with equal keys stand in the
\* order they had in the candidate set: the order of the search result on
\* the route's path, the order in which the store lists them on the
\* store's path.
C21_RatingSortNullLast ==
    [][\A q \in Q :
         /\ (Filters(q) /\ ByRatingDescending(req'[q]))
            => LET incoming == req[q].out.movies
                   sorted == req'[q].out.movies
               IN  /\ req'[q].out.status = "ok" /\ req'[q].out.http = 200
                   /\ Len(sorted) = Len(incoming)
                   /\ Range(sorted) = Range(incoming)
                   /\ NullLowDescending(sorted)
                   /\ \A i, j \in 1..Len(sorted) :
                        (i < j /\ JsNum(sorted[i].score) = JsNum(sorted[j].score))
                        => IndexOf(incoming, sorted[i]) <
                             IndexOf(incoming, sorted[j])
         /\ (ReadsAll(q) /\ ByRatingDescending(req[q]))
            => LET sorted == req'[q].out.movies
               IN  /\ req'[q].out.status = "ok"
                   /\ Range(sorted) = {d \in store : Active(d)}
                   /\ Len(sorted) = Cardinality(Range(sorted))
                   /\ NullLowDescending(sorted)
                   /\ \A i, j \in 1..Len(sorted) :
                        (i < j /\ sorted[i].score = sorted[j].score)
                        => DocBefore(sorted[i], sorted[j])]_vars

\* The job of slot q takes a step of a run.
Runs(q) == (req[q].op \in CronJobs \/ req'[q].op \in CronJobs) /\ Steps(q)

\* C22: a store error in a scheduled run, during the purge or during the
\* statistics after it, stays inside the run: the run goes on or ends as a
\* run without an error does, and the store is as it was; when the run has
\* returned the job can be triggered again, and every trigger of a job,
\* those after a failed run among them, calls the purge.
C22_CleanupFailureContained ==
    [][\A q \in Q :
         Runs(q)
         => /\ req'[q].pc \in {"purge", "stats", "done", "idle"}
            /\ req'[q].out.status \in {"none", "ok", "logged"}
            /\ (req[q].out.status # "logged" /\ req'[q].out.status = "logged")
               => /\ store' = store
                  /\ req'[q].pc = IF req[q].pc = "purge" /\ req[q].op = "daily"
                                  THEN "stats" ELSE "done"
            /\ req[q].pc = "done"
               => /\ req'[q].pc = "idle"
                  /\ req'[q].failed = (req[q].failed \/ req[q].out.status = "logged")
            /\ req[q].pc = "idle"
               => /\ req'[q].op \in CronJobs /\ req'[q].pc = "purge"
                  /\ req'[q].failed = req[q].failed]_vars

\* A run of the daily job that follows a failed run has purged a record.
C22_Witness ==
    /\ req[1].op = "daily" /\ req[1].failed
    /\ req[1].pc = "stats" /\ req[1].out.deletedCount = 1

\* The request q calls cleanupByCriteria in this step.
Curates(q) == req[q].pc = "idle" /\ req'[q].op = "cleanup"

\* The range has both bounds, the lower not above the upper.
Bounded(range) ==
    /\ range.kind = "range" /\ Given(range.min) /\ Given(range.max)
    /\ range.min <= range.max

\* The only criterion given is `field`.
OnlyCriterion(criteria, field) ==
    criteria = [NoCriteria EXCEPT ![field] = criteria[field]]

\* The store after the step has lost the records whose value lies outside
\* the range and kept the records whose value lies inside.
DeletesOutside(value(_), range) ==
    \A d \in store :
      value(d) # Null =>
        IF value(d) < range.min \/ value(d) > range.max
        THEN d \notin store' ELSE d \in store'

\* C23: cleanupByCriteria with a rating range {min, max}, min <= max, as
\* its criterion deletes every record whose score is below min or above max
\* and keeps every record whose score lies in [min, max], whether the
\* record is active or expired; and so for a year range.
C23_ExclusionRange ==
    [][\A q \in Q :
         Curates(q)
         => LET criteria == req'[q].criteria
            IN  /\ (OnlyCriterion(criteria, "rating") /\ Bounded(criteria.rating))
                   => DeletesOutside(LAMBDA d : d.score, criteria.rating)
                /\ (OnlyCriterion(criteria, "year") /\ Bounded(criteria.year))
                   => DeletesOutside(LAMBDA d : d.year, criteria.year)]_vars

\* The range excludes the value: it lies below the given min or above the
\* given max.
Excludes(range, v) ==
    /\ range.kind = "range" /\ v # Null
    /\ \/ Given(range.min) /\ v < range.min
       \/ Given(range.max) /\ v > range.max

\* The record matches a criterion that the caller gave.
MatchesSupplied(d, criteria) ==
    \/ Given(criteria.olderThan) /\ d.createdAt < criteria.olderThan
    \/ Excludes(criteria.rating, d.score)
    \/ Len(criteria.genre) > 0 /\ Range(d.genre) \cap Range(criteria.genre) = {}
    \/ Excludes(criteria.year, d.year)

\* No criterion was given: every field is absent or empty.
NothingSupplied(criteria) ==
    /\ ~Given(criteria.olderThan) /\ Len(criteria.genre) = 0
    /\ \A range \in {criteria.rating, criteria.year} :
         ~Given(range.min) /\ ~Given(range.max)

\* C29: cleanupByCriteria deletes only records that match a criterion the
\* caller gave; without a criterion, or with criteria whose fields are all
\* absent or empty, it deletes nothing and returns 0.
C29_OnlySuppliedCriteria ==
    [][\A q \in Q :
         Curates(q)
         => LET criteria == req'[q].criteria
            IN  /\ \A d \in store \ store' : MatchesSupplied(d, criteria)
                /\ NothingSupplied(criteria)
                   => store' = store /\ req'[q].out.deletedCount = 0]_vars

\* A year or a rating that lies outside the range of values.
OutOfRange(f, lo, hi) ==
    \/ f.kind = "value" /\ (f.value < lo \/ f.value > hi)
    \/ f.kind = "range" /\ \E v \in {f.min, f.max} :
                              Given(v) /\ (v < lo \/ v > hi)

\* The query parameters are malformed.
Malformed(query) ==
    \/ Given(query.limit) /\ query.limit \notin 1..50
    \/ Given(query.page) /\ query.page < 1
    \/ query.sort \notin {Absent, "title", "year", "rating", "runtime", "createdAt"}
    \/ query.order \notin {Absent, "asc", "desc"}
    \/ OutOfRange(query.year, 1888, ThisYear + 5)
    \/ OutOfRange(query.rating, 0, 100)

\* The path parameters of the model that are tt and seven or eight digits.
WellFormedIds == {"tt0000001", "tt0000009", "tt00000001"}

\* The request was turned away with 400 in the step in which it came: it
\* read and wrote no record and called no provider.
Rejected(q) ==
    /\ req'[q].pc = "done" /\ req'[q].out.http = 400
    /\ req'[q].out.status = "error" /\ req'[q].out.movies = <<>>
    /\ req'[q].calls = 0 /\ req'[q].got = {} /\ req'[q].items = <<>>
    /\ store' = store

\* C24: a GET /movies request whose query parameters are malformed (limit
\* outside 1..50, page below 1, unknown sort or order, a year or a rating
\* out of range), and a GET /movies/:id whose id is not tt and seven or
\* eight digits, is answered with 400 in the step in which it arrives,
\* before any store read or write and any provider call.
C24_MalformedRejected ==
    [][\A q \in Q :
         (req[q].pc = "idle" /\ Steps(q))
         => /\ Malformed(req'[q].query) => Rejected(q)
            /\ (req'[q].op = "getById" /\ req'[q].arg \notin WellFormedIds)
               => Rejected(q)]_vars

\* The credential is a token that verifies, of a user that exists and is
\* active.
ActiveUserToken(cred) ==
    /\ cred.kind = "valid"
    /\ cred.userId \in {"u1", "u3"}

\* The credential is that of an active administrator.
AdminToken(cred) == cred.kind = "valid" /\ cred.userId = "u1"

\* The request of slot q to an administrative route takes a step.
Administers(q) ==
    (req[q].op \in AdminOps \/ req'[q].op \in AdminOps) /\ Steps(q)

\* C25: a request to DELETE /movies/:id, PUT /movies/:id,
\* DELETE /movies/cache/expired or DELETE /movies/cache/all changes the
\* store only when it carries a valid token of an existing, active user
\* whose role is admin; without a token, with a token that does not verify
\* and with the token of a user that is gone or inactive it ends with 401,
\* with the token of another active user it ends with 403, and in these
\* cases no step of it changes the store.
C25_AdminOnly ==
    [][\A q \in Q :
         Administers(q)
         => LET r == IF req'[q].op \in AdminOps THEN req'[q] ELSE req[q]
            IN  ~AdminToken(r.cred)
                => /\ store' = store
                   /\ r.pc \in {"auth", "done"}
                   /\ r.pc = "done"
                      => r.out.http = IF ActiveUserToken(r.cred) THEN 403
                                      ELSE 401]_vars

\* A plain user has been refused with 403 and an administrator has deleted
\* the records of the store.
C25_Witness ==
    /\ req[1].op = "deleteAll" /\ req[1].cred.userId = "u3"
    /\ req[1].pc = "done" /\ req[1].out.http = 403
    /\ req[2].op = "deleteAll" /\ req[2].cred.userId = "u1"
    /\ req[2].pc = "done" /\ req[2].out.deletedCount = 2

\* C26: getCacheStats changes no record, and the counts it returns for the
\* store of one instant are total = active + expired, active the number of
\* records an active-scoped read returns at that instant (now <
\* cacheExpiry) and expired the number of records a purge deletes at that
\* instant, also when the cacheExpiry of a record equals now.
C26_StatsCounts ==
    [][\A q \in Q :
         (req[q].op = "stats" /\ req[q].pc = "stats" /\ Steps(q))
         => /\ store' = store
            /\ (req'[q].out.status = "ok" /\ req'[q].out.readAt = now)
               => /\ req'[q].out.total = Cardinality(store)
                  /\ req'[q].out.total =
                       req'[q].out.active + req'[q].out.expired
                  /\ req'[q].out.active =
                       Cardinality({d \in store : now < d.cacheExpiry})
                  /\ req'[q].out.expired =
                       Cardinality({d \in store : Expired(d)})]_vars

\* The values a cacheExpiry takes while the model's clock runs.
Expiries == {k * TickMs + TTL : k \in 0..MaxTicks}

\* The store holds the record of the title with this cacheExpiry.
Holds(imdbID, expiry) ==
    \E d \in store : d.imdbID = imdbID /\ d.cacheExpiry = expiry

\* C27: with the daily trigger firing again and again and a store that in
\* the end accepts the delete, a record whose cacheExpiry has passed does
\* not stay in the store for ever: it is deleted, or refreshed to a later
\* cacheExpiry.
C27_ExpiredEventuallyGone ==
    \A imdbID \in CronIds, expiry \in Expiries :
      (Holds(imdbID, expiry) /\ expiry < now) ~> ~Holds(imdbID, expiry)

\* The daily job has deleted the one record of the store, which had
\* expired.
C27_Witness ==
    /\ req[1].op = "daily" /\ req[1].pc = "stats"
    /\ req[1].out.deletedCount = 1 /\ req[1].out.status # "logged"
    /\ store = {} /\ now > TTL

\* The active records of the store that match the term.
ActiveMatches(term) == {d \in store : TextMatch(d, term) /\ Active(d)}

\* The step is the cache lookup of a search, and it hits.
CacheHit(q) ==
    /\ req[q].op = "search" /\ req[q].pc = "cache"
    /\ req'[q].pc # "cache"
    /\ ActiveMatches(req[q].arg) # {}

\* C28: a cache lookup that finds an active match answers from the cache
\* with the first ten active matches, whatever page was asked for, gives
\* the length of that list as totalResults, and ends the search without a
\* call of the provider.
C28_CacheHitIgnoresPage ==
    [][\A q \in Q :
         CacheHit(q) =>
           /\ req'[q].pc = "done" /\ req'[q].calls = 0
           /\ req'[q].out.status = "ok" /\ req'[q].out.source = "cache"
           /\ req'[q].out.movies =
                Take(DocsToSeq(ActiveMatches(req[q].arg)), CacheLimit)
           /\ Len(req'[q].out.movies) <= CacheLimit
           /\ req'[q].out.total = Len(req'[q].out.movies)
           /\ req'[q].out.page = req[q].page]_vars

\* Page 2 was asked for while eleven active records match: the answer is
\* the first ten, and the eleventh is not in it.
C28_Witness ==
    /\ req[1].op = "search" /\ req[1].pc = "done" /\ req[1].page = 2
    /\ req[1].out.source = "cache" /\ req[1].out.total = CacheLimit
    /\ Cardinality(ActiveMatches(req[1].arg)) = CacheLimit + 1
    /\ \A k \in 1..CacheLimit :
         req[1].out.movies[k].imdbID = SagaCatalog[k]

\* isAuthenticated is true exactly when neither user nor token is null.
AuthenticatedIffSession ==
    client.state.isAuthenticated <=>
      (client.state.user # NullUser /\ client.state.token # NullToken)

\* C30: in every state of the AuthContext isAuthenticated is true exactly
\* when user and token are both non-null, and from the completion of a
\* logout until a login or a register succeeds user is null, whatever call
\* answers in between.
C30_SessionConsistent ==
    /\ AuthenticatedIffSession
    /\ client.loggedOut => client.state.user = NullUser
====
